---- MODULE Spec2Model ----
(***************************************************************************)
(* InvestIQ: the four analyst agents and the DecisionEngine that combines  *)
(* their results into a recommendation.                                    *)
(*                                                                         *)
(* Numbers.  Every Python float is an integer count of thousandths         *)
(* (12.345 is 12345), or NaN.  Comparisons with NaN are false, as in       *)
(* Python; max and min are Python's two-argument max and min, which keep   *)
(* the first argument unless the second compares greater (smaller).        *)
(* round(x, 2) rounds to a multiple of 10 thousandths; on a decimal tie    *)
(* the binary value of the float decides the direction, so the direction   *)
(* is an input (tie) of every operation that rounds.                       *)
(***************************************************************************)
EXTENDS Integers, Sequences, FiniteSets, TLC

VARIABLES
    pc,                     \* position inside DecisionEngine.analyze
    fundamental_analysis,   \* result of FundamentalAnalyst.analyze, or None
    sentiment_analysis,     \* result of SentimentAnalyst.analyze, or None
    technical_analysis,     \* result of TechnicalAnalyst.analyze, or None
    risk_analysis,          \* result of RiskManager.analyze, or None
    final_decision,         \* the Decision returned by analyze, or None
    call,                   \* the last direct call of a method: [op, args, ret]
    request,                \* who called DecisionEngine.analyze, with which symbol
    response,               \* what the HTTP handler or the CLI answered, or None
    engines,                \* DecisionEngine objects the entry points constructed
    agent_calls,            \* the agents DecisionEngine.analyze has invoked, in order
    previous                \* the Decision of the engine's earlier call, or None

vars == <<pc, fundamental_analysis, sentiment_analysis, technical_analysis,
          risk_analysis, final_decision, call, request, response, engines,
          agent_calls, previous>>

\* the state of the entry points
caller == <<request, response, engines, previous>>

None == [none |-> TRUE]

\* the outcome of a call that raises an exception instead of returning
Raised == [raised |-> TRUE]

----------------------------------------------------------------------------
(* Floats *)

NaN == -999999999

IsNaN(x) == x = NaN

\* numpy's float infinities (a division by a zero standard deviation)
NpInf == 999999998
NpNegInf == -999999998

\* JSON null in the place of a number
Null == -777777777

Pts(n) == n * 1000

\* n / d to the nearest integer; a tie goes up iff tie
RoundDiv(n, d, tie) ==
    LET q == n \div d
        r == n % d
    IN  IF 2 * r < d THEN q
        ELSE IF 2 * r > d THEN q + 1
        ELSE IF tie THEN q + 1 ELSE q

Lt(a, b) == ~IsNaN(a) /\ ~IsNaN(b) /\ a < b
Gt(a, b) == ~IsNaN(a) /\ ~IsNaN(b) /\ a > b
Le(a, b) == ~IsNaN(a) /\ ~IsNaN(b) /\ a <= b
Ge(a, b) == ~IsNaN(a) /\ ~IsNaN(b) /\ a >= b

Add(a, b) == IF IsNaN(a) \/ IsNaN(b) THEN NaN ELSE a + b
Sub(a, b) == IF IsNaN(a) \/ IsNaN(b) THEN NaN ELSE a - b
\* a * (num / den) for a literal factor num/den
Times(a, num, den) == IF IsNaN(a) THEN NaN ELSE RoundDiv(a * num, den, FALSE)

PyMax(a, b) == IF Gt(b, a) THEN b ELSE a
PyMin(a, b) == IF Lt(b, a) THEN b ELSE a

Abs(a) == IF IsNaN(a) THEN NaN ELSE IF a < 0 THEN 0 - a ELSE a

\* round(x, 2)
Round2(x, tie) == IF IsNaN(x) THEN NaN ELSE 10 * RoundDiv(x, 10, tie)

SetMax(S) == CHOOSE m \in S : \A x \in S : x <= m
SetMin(S) == CHOOSE m \in S : \A x \in S : m <= x

Range(s) == {s[i] : i \in 1..Len(s)}

\* needle in s  (Python's substring test on str)
Contains(needle, s) ==
    \E i \in 1..(Len(s) - Len(needle) + 1) :
        SubSeq(s, i, i + Len(needle) - 1) = needle

----------------------------------------------------------------------------
(* Provider data.  A mapping (a dict, the index of a DataFrame) is a       *)
(* function; a key that is absent is not in its DOMAIN.                     *)

Get(d, key, default) == IF key \in DOMAIN d THEN d[key] ELSE default

\* Python's truth value of a number: 0 is false, NaN is true
Truthy(x) == x # 0

\* a str where the provider usually gives a number (trailingPE: 'Infinity')
StrValue == -888888888

\* a title that is None, not a str
NoneTitle == "<None>"

\* a / b; ZeroDivisionError and numpy's infinities are not in the inputs
Div(a, b) ==
    IF IsNaN(a) \/ IsNaN(b) THEN NaN
    ELSE IF b > 0 THEN RoundDiv(a * 1000, b, FALSE)
    ELSE 0 - RoundDiv(a * 1000, 0 - b, FALSE)

----------------------------------------------------------------------------
(* FundamentalAnalyst *)

fundamental_weights_equal ==
    [revenue_growth |-> 20, profit_margin |-> 20, pe_ratio |-> 20,
     debt_to_equity |-> 20, roe |-> 20]

\* self.weights of the FundamentalAnalyst, in hundredths
fundamental_weights ==
    [revenue_growth |-> 25, profit_margin |-> 25, pe_ratio |-> 20,
     debt_to_equity |-> 15, roe |-> 15]

\* ticker.financials, ticker.balance_sheet: row label -> values, latest first
Empty(frame) == DOMAIN frame = {}

revenue_growth_metric(info, financials) ==
    IF ~Empty(financials) /\ "Total Revenue" \in DOMAIN financials
    THEN LET revenue == financials["Total Revenue"]
         IN  IF Len(revenue) >= 2
             THEN LET current_rev == revenue[1]
                      prev_rev == revenue[2]
                  IN  IF prev_rev # 0
                      THEN Times(Div(Sub(current_rev, prev_rev), Abs(prev_rev)), 100, 1)
                      ELSE 0
             ELSE 0
    ELSE IF Truthy(Get(info, "revenueGrowth", 0))
         THEN Times(Get(info, "revenueGrowth", 0), 100, 1) ELSE 0

profit_margin_metric(info, financials) ==
    IF ~Empty(financials) /\ "Net Income" \in DOMAIN financials
       /\ "Total Revenue" \in DOMAIN financials
    THEN LET net_income == financials["Net Income"][1]
             revenue == financials["Total Revenue"][1]
         IN  IF revenue # 0 THEN Times(Div(net_income, revenue), 100, 1) ELSE 0
    ELSE LET profit_margin == Get(info, "profitMargins", 0)
         IN  IF Truthy(profit_margin) THEN Times(profit_margin, 100, 1) ELSE 0

pe_ratio_metric(info) ==
    IF Truthy(Get(info, "trailingPE", 0)) THEN Get(info, "trailingPE", 0)
    ELSE IF Truthy(Get(info, "forwardPE", 0)) THEN Get(info, "forwardPE", 0)
    ELSE 0

info_debt_to_equity(info) ==
    IF Truthy(Get(info, "debtToEquity", 0)) THEN Get(info, "debtToEquity", 0) ELSE 0

debt_to_equity_metric(info, balance_sheet) ==
    IF ~Empty(balance_sheet)
    THEN IF "Total Debt" \in DOMAIN balance_sheet
            /\ "Stockholders Equity" \in DOMAIN balance_sheet
         THEN LET debt == balance_sheet["Total Debt"][1]
                  equity == balance_sheet["Stockholders Equity"][1]
              IN  IF equity # 0 THEN Div(debt, equity) ELSE 0
         ELSE info_debt_to_equity(info)
    ELSE info_debt_to_equity(info)

info_roe(info) ==
    IF Truthy(Get(info, "returnOnEquity", 0))
    THEN Times(Get(info, "returnOnEquity", 0), 100, 1) ELSE 0

roe_metric(info, financials, balance_sheet) ==
    IF ~Empty(financials) /\ ~Empty(balance_sheet)
    THEN IF "Net Income" \in DOMAIN financials
            /\ "Stockholders Equity" \in DOMAIN balance_sheet
         THEN LET net_income == financials["Net Income"][1]
                  equity == balance_sheet["Stockholders Equity"][1]
              IN  IF equity # 0 THEN Times(Div(net_income, equity), 100, 1) ELSE 0
         ELSE info_roe(info)
    ELSE info_roe(info)

\* the metrics of fetch_financial_metrics, or None when the fetch raises
fetch_financial_metrics(ticker) ==
    IF ticker.raises THEN None
    ELSE [revenue_growth |-> revenue_growth_metric(ticker.info, ticker.financials),
          profit_margin  |-> profit_margin_metric(ticker.info, ticker.financials),
          pe_ratio       |-> pe_ratio_metric(ticker.info),
          debt_to_equity |-> debt_to_equity_metric(ticker.info, ticker.balance_sheet),
          roe            |-> roe_metric(ticker.info, ticker.financials,
                                        ticker.balance_sheet)]

normalize_score_flatter(value, metric_type) ==
    CASE metric_type = "revenue_growth" ->
            IF Gt(value, Pts(20)) THEN Pts(100)
            ELSE IF Gt(value, Pts(10)) THEN Pts(70) + (value - Pts(10)) * 2
            ELSE IF Gt(value, 0) THEN Pts(50) + value * 2
            ELSE PyMax(0, Add(Pts(50), Times(value, 2, 1)))
      [] OTHER -> Pts(50)

normalize_score(value, metric_type) ==
    CASE metric_type = "revenue_growth" ->
            IF Gt(value, Pts(20)) THEN Pts(100)
            ELSE IF Gt(value, Pts(10)) THEN Pts(70) + (value - Pts(10)) * 3
            ELSE IF Gt(value, 0) THEN Pts(50) + value * 2
            ELSE PyMax(0, Add(Pts(50), Times(value, 2, 1)))
      [] metric_type = "profit_margin" ->
            IF Gt(value, Pts(20)) THEN Pts(100)
            ELSE IF Gt(value, Pts(10)) THEN Pts(70) + (value - Pts(10)) * 3
            ELSE IF Gt(value, Pts(5)) THEN Pts(50) + (value - Pts(5)) * 4
            ELSE PyMax(0, Times(value, 10, 1))
      [] metric_type = "pe_ratio" ->
            IF Le(Pts(15), value) /\ Le(value, Pts(25)) THEN Pts(100)
            ELSE IF (Le(Pts(10), value) /\ Lt(value, Pts(15)))
                    \/ (Lt(Pts(25), value) /\ Le(value, Pts(30))) THEN Pts(80)
            ELSE IF (Le(Pts(5), value) /\ Lt(value, Pts(10)))
                    \/ (Lt(Pts(30), value) /\ Le(value, Pts(40))) THEN Pts(60)
            ELSE IF Lt(value, Pts(5))
                    \/ (Lt(Pts(40), value) /\ Le(value, Pts(60))) THEN Pts(40)
            ELSE Pts(20)
      [] metric_type = "debt_to_equity" ->
            IF Lt(value, 300) THEN Pts(100)
            ELSE IF Lt(value, 500) THEN Pts(85)
            ELSE IF Lt(value, 1000) THEN Pts(70)
            ELSE IF Lt(value, 2000) THEN Pts(50)
            ELSE PyMax(0, Sub(Pts(100), Times(value, 20, 1)))
      [] metric_type = "roe" ->
            IF Gt(value, Pts(20)) THEN Pts(100)
            ELSE IF Gt(value, Pts(15)) THEN Pts(80) + (value - Pts(15)) * 4
            ELSE IF Gt(value, Pts(10)) THEN Pts(60) + (value - Pts(10)) * 4
            ELSE PyMax(0, Times(value, 6, 1))
      [] OTHER -> Pts(50)

RECURSIVE SumOver(_, _)
SumOver(f, keys) ==
    IF keys = {} THEN 0
    ELSE LET k == CHOOSE x \in keys : TRUE
         IN  f[k] + SumOver(f, keys \ {k})

\* the normalized score of every weighted metric
normalized_scores(metrics) ==
    [m \in DOMAIN metrics \cap DOMAIN fundamental_weights |->
        normalize_score(metrics[m], m)]

\* total_score of calculate_fundamental_score
calculate_fundamental_score(metrics, tie) ==
    LET scores == normalized_scores(metrics)
        weighted_sum_x100 ==
            SumOver([m \in DOMAIN scores |-> scores[m] * fundamental_weights[m]],
                    DOMAIN scores)
    IN  10 * RoundDiv(weighted_sum_x100, 1000, tie)

fundamental_determine_bias(score) ==
    IF score >= Pts(75) THEN "Bullish"
    ELSE IF score >= Pts(60) THEN "Slightly Bullish"
    ELSE IF score >= Pts(45) THEN "Neutral"
    ELSE IF score >= Pts(30) THEN "Slightly Bearish"
    ELSE "Bearish"

generate_insights(metrics) ==
    LET revenue_growth == metrics.revenue_growth
        debt_to_equity == metrics.debt_to_equity
        pe_ratio == metrics.pe_ratio
    IN  (IF Gt(revenue_growth, Pts(15)) THEN <<"Strong revenue growth">>
         ELSE IF Gt(revenue_growth, Pts(5)) THEN <<"Moderate revenue growth">>
         ELSE IF Lt(revenue_growth, 0) THEN <<"Declining revenue">>
         ELSE <<>>)
        \o (IF Lt(debt_to_equity, 500) THEN <<"Low debt">>
            ELSE IF Lt(debt_to_equity, 1000) THEN <<"Moderate debt">>
            ELSE <<"High debt">>)
        \o (IF Gt(pe_ratio, Pts(30)) THEN <<"Overvalued P/E">>
            ELSE IF Lt(pe_ratio, Pts(15)) THEN <<"Undervalued P/E">>
            ELSE <<"Fair P/E valuation">>)

fundamental_default_neutral ==
    [score |-> Pts(50), bias |-> "Neutral",
     insights |-> <<"Unable to fetch financial data">>,
     metrics |-> <<>>]

fundamental_default ==
    [score |-> 0, bias |-> "Unknown",
     insights |-> <<"Unable to fetch financial data">>,
     metrics |-> <<>>]

\* normalize_score compares value with numbers: a str raises TypeError
normalize_score_raises(metrics) ==
    \E m \in DOMAIN metrics \cap DOMAIN fundamental_weights : metrics[m] = StrValue

\* FundamentalAnalyst.analyze
fundamental_analyze(ticker, tie) ==
    LET metrics == fetch_financial_metrics(ticker)
    IN  IF metrics = None THEN fundamental_default
        ELSE IF normalize_score_raises(metrics) THEN Raised
        ELSE LET score == calculate_fundamental_score(metrics, tie)
             IN  [score |-> score,
                  bias |-> fundamental_determine_bias(score),
                  insights |-> generate_insights(metrics),
                  metrics |-> metrics]

----------------------------------------------------------------------------
(* SentimentAnalyst *)

\* the [:20] of fetch_news
NewsLimit == 20

Take(s, n) == SubSeq(s, 1, IF Len(s) < n THEN Len(s) ELSE n)

\* an article of ticker.news is a dict; polarity is TextBlob's polarity of
\* its title and summary.  Times are in days.
fetch_news_remembering(ticker, days, now) ==
    IF ticker.raises THEN <<>>
    ELSE IF previous # None THEN <<>>
    ELSE LET cutoff_date == now - days
             Recent(article) == Get(article, "providerPublishTime", 0) >= cutoff_date
             Item(article) == [title |-> Get(article, "title", ""),
                               date |-> Get(article, "providerPublishTime", 0),
                               polarity |-> article.polarity]
             filtered == SelectSeq(ticker.news, Recent)
             filtered_news == [i \in 1..Len(filtered) |-> Item(filtered[i])]
         IN  Take(filtered_news, NewsLimit)

fetch_news(ticker, days, now) ==
    IF ticker.raises THEN <<>>
    ELSE IF ticker.news = <<>> THEN <<>>
    ELSE LET cutoff_date == now - days
             Recent(article) == Get(article, "providerPublishTime", 0) >= cutoff_date
             Item(article) == [title |-> Get(article, "title", ""),
                               date |-> Get(article, "providerPublishTime", 0),
                               polarity |-> article.polarity]
             filtered == SelectSeq(ticker.news, Recent)
             filtered_news == [i \in 1..Len(filtered) |-> Item(filtered[i])]
         IN  Take(filtered_news, NewsLimit)

RECURSIVE SeqSum(_)
SeqSum(s) == IF s = <<>> THEN 0 ELSE s[1] + SeqSum(Tail(s))

Mean(s) == RoundDiv(SeqSum(s), Len(s), FALSE)

calculate_sentiment_metrics(news_items) ==
    LET sentiments == [i \in 1..Len(news_items) |-> news_items[i].polarity]
        total_count == Len(sentiments)
        positive_count == Cardinality({i \in 1..total_count : sentiments[i] > 100})
        negative_count == Cardinality({i \in 1..total_count : sentiments[i] < -100})
    IN  [average_sentiment |-> Mean(sentiments),
         positive_count |-> positive_count,
         negative_count |-> negative_count,
         neutral_count |-> total_count - positive_count - negative_count,
         total_count |-> total_count,
         positive_percentage |->
            Round2(RoundDiv(positive_count * Pts(100), total_count, FALSE), FALSE),
         sentiment_trend |-> news_items]

\* x placed after every item not dated later than it
InsertByDate(sorted, x) ==
    LET k == Cardinality({i \in 1..Len(sorted) : sorted[i].date <= x.date})
    IN  SubSeq(sorted, 1, k) \o <<x>> \o SubSeq(sorted, k + 1, Len(sorted))

RECURSIVE SortedByDate(_)
SortedByDate(s) ==
    IF s = <<>> THEN <<>>
    ELSE InsertByDate(SortedByDate(SubSeq(s, 1, Len(s) - 1)), s[Len(s)])

LastN(s, n) == IF Len(s) <= n THEN s ELSE SubSeq(s, Len(s) - n + 1, Len(s))

no_spike == [spike_detected |-> FALSE]

\* None for fewer than two items
detect_sentiment_spike(sentiment_trend) ==
    IF Len(sentiment_trend) < 2 THEN None
    ELSE LET sorted_trend == SortedByDate(sentiment_trend)
             recent == LastN(sorted_trend, 5)
             recent_sentiments == [i \in 1..Len(recent) |-> recent[i].polarity]
             recent_avg == Mean(LastN(recent_sentiments, 3))
             previous_avg ==
                IF Len(recent_sentiments) > 3
                THEN Mean(SubSeq(recent_sentiments, 1, Len(recent_sentiments) - 3))
                ELSE recent_sentiments[1]
             change == recent_avg - previous_avg
         IN  IF Abs(change) > 300
             THEN [spike_detected |-> TRUE,
                   direction |-> IF change > 0 THEN "positive" ELSE "negative",
                   magnitude |-> Abs(change),
                   recent_news |-> sorted_trend[Len(sorted_trend)].title]
             ELSE no_spike

calculate_sentiment_score(average_sentiment, tie) ==
    PyMax(0, PyMin(Pts(100), Round2(Pts(50) + average_sentiment * 50, tie)))

sentiment_determine_bias(average_sentiment) ==
    IF average_sentiment > 300 THEN "Bullish"
    ELSE IF average_sentiment > 100 THEN "Slightly Bullish"
    ELSE IF average_sentiment > -100 THEN "Neutral"
    ELSE IF average_sentiment > -300 THEN "Slightly Bearish"
    ELSE "Bearish"

sentiment_default_zero ==
    [score |-> 0, bias |-> "Unknown", average_sentiment |-> 0,
     positive_percentage |-> 0, total_articles |-> 0, spike |-> None,
     insights |-> <<"No recent news available">>]

sentiment_default ==
    [score |-> Pts(50), bias |-> "Neutral", average_sentiment |-> 0,
     positive_percentage |-> 0, total_articles |-> 0, spike |-> None,
     insights |-> <<"No recent news available">>]

\* item['title'][:50] raises TypeError when the title is None
calculate_sentiment_metrics_raises(news_items) ==
    \E i \in 1..Len(news_items) : news_items[i].title = NoneTitle

\* SentimentAnalyst.analyze
sentiment_analyze(ticker, days, now, tie) ==
    LET news_items == fetch_news(ticker, days, now)
    IN  IF news_items = <<>> THEN sentiment_default
        ELSE IF calculate_sentiment_metrics_raises(news_items) THEN Raised
        ELSE LET metrics == calculate_sentiment_metrics(news_items)
                 spike == detect_sentiment_spike(metrics.sentiment_trend)
             IN  [score |-> calculate_sentiment_score(metrics.average_sentiment, tie),
                  bias |-> sentiment_determine_bias(metrics.average_sentiment),
                  average_sentiment |-> metrics.average_sentiment,
                  positive_percentage |-> metrics.positive_percentage,
                  total_articles |-> metrics.total_count,
                  spike |-> spike,
                  insights |->
                     <<"% positive mentions">>
                     \o (IF spike # None /\ spike.spike_detected
                         THEN IF spike.direction = "positive"
                              THEN <<"Sudden positive spike after: ">>
                              ELSE <<"Sudden negative spike after: ">>
                         ELSE <<>>)]

----------------------------------------------------------------------------
(* Price history.  ticker.history is a DataFrame df of daily bars; pandas   *)
(* and numpy compute its aggregates, and df carries what they return for    *)
(* the last row: rows = len(df), Close, the rolling means, maxima and       *)
(* minima over full windows, the MACD histogram and the return statistics.  *)
(* A rolling aggregate over a window longer than the frame is NaN.          *)

\* the last value of df[column].rolling(window).<aggregate>()
rolling_last(df, column, window) == IF df.rows < window THEN NaN ELSE df[column]

----------------------------------------------------------------------------
(* TechnicalAnalyst *)

\* df of TechnicalAnalyst.fetch_price_data, or None when the fetch raises or
\* the frame is empty
technical_fetch_price_data(ticker) ==
    IF ticker.raises THEN None
    ELSE IF ticker.history.rows = 0 THEN None
    ELSE ticker.history

calculate_moving_averages(df) ==
    [MA20 |-> rolling_last(df, "mean20", 20), MA50 |-> rolling_last(df, "mean50", 50)]

\* the last value of calculate_rsi; x / 0 is inf and 0 / 0 is NaN in numpy
calculate_rsi(df) ==
    LET gain == rolling_last(df, "gain14", 14)
        loss == rolling_last(df, "loss14", 14)
    IN  IF IsNaN(gain) \/ IsNaN(loss) THEN NaN
        ELSE IF loss = 0 THEN (IF gain = 0 THEN NaN ELSE Pts(100))
        ELSE Pts(100) - Div(Pts(100), Pts(1) + Div(gain, loss))

identify_support_resistance(df) ==
    LET resistance == rolling_last(df, "high20", 20)
        support == rolling_last(df, "low20", 20)
        current_price == df.Close
    IN  [support |-> support, resistance |-> resistance,
         current_price |-> current_price,
         distance_to_support |->
            Times(Div(Sub(current_price, support), support), 100, 1),
         distance_to_resistance |->
            Times(Div(Sub(resistance, current_price), current_price), 100, 1)]

determine_trend(df, ma_data) ==
    LET current_price == df.Close
    IN  IF "MA20" \in DOMAIN ma_data /\ "MA50" \in DOMAIN ma_data
        THEN LET ma20 == ma_data.MA20
                 ma50 == ma_data.MA50
             IN  IF Gt(current_price, ma20) /\ Gt(ma20, ma50) THEN "Strong Uptrend"
                 ELSE IF Gt(current_price, ma20) /\ Lt(ma20, ma50) THEN "Weak Uptrend"
                 ELSE IF Lt(current_price, ma20) /\ Lt(ma20, ma50) THEN "Strong Downtrend"
                 ELSE IF Lt(current_price, ma20) /\ Gt(ma20, ma50) THEN "Weak Downtrend"
                 ELSE "Sideways"
        ELSE "Unknown"

detect_breakout(support_resistance) ==
    LET current_price == support_resistance.current_price
        resistance == support_resistance.resistance
        support == support_resistance.support
    IN  IF Ge(current_price, Times(resistance, 98, 100))
        THEN [breakout_detected |-> TRUE, type |-> "resistance_breakout",
              direction |-> "upward"]
        ELSE IF Le(current_price, Times(support, 102, 100))
        THEN [breakout_detected |-> TRUE, type |-> "support_breakdown",
              direction |-> "downward"]
        ELSE [breakout_detected |-> FALSE]

assess_overbought_oversold(current_rsi) ==
    IF Gt(current_rsi, Pts(70)) THEN "Overbought"
    ELSE IF Lt(current_rsi, Pts(30)) THEN "Oversold"
    ELSE "Neutral"

\* the RSI contribution of calculate_technical_score
rsi_term(rsi) ==
    IF Le(Pts(30), rsi) /\ Le(rsi, Pts(70)) THEN Times(rsi - Pts(50), 3, 10)
    ELSE IF Gt(rsi, Pts(70)) THEN 0 - Times(rsi - Pts(70), 5, 10)
    ELSE Times(Sub(Pts(30), rsi), 5, 10)

trend_term(trend) ==
    IF trend = "Strong Uptrend" THEN Pts(20)
    ELSE IF trend = "Weak Uptrend" THEN Pts(10)
    ELSE IF trend = "Strong Downtrend" THEN 0 - Pts(20)
    ELSE IF trend = "Weak Downtrend" THEN 0 - Pts(10)
    ELSE 0

macd_term(macd_hist) ==
    IF Gt(macd_hist, 0) THEN PyMin(Pts(10), Times(macd_hist, 100, 1))
    ELSE PyMax(0 - Pts(10), Times(macd_hist, 100, 1))

calculate_technical_score_unclamped(indicators, tie) ==
    Round2(Add(Add(Add(Add(Pts(50), rsi_term(indicators.rsi)),
                       trend_term(indicators.trend)),
                   macd_term(indicators.macd_histogram)),
               Times(Sub(indicators.price_position, 500), 20, 1)), tie)

calculate_technical_score(indicators, tie) ==
    LET score == Add(Add(Add(Add(Pts(50), rsi_term(indicators.rsi)),
                             trend_term(indicators.trend)),
                         macd_term(indicators.macd_histogram)),
                     Times(Sub(indicators.price_position, 500), 20, 1))
    IN  PyMax(0, PyMin(Pts(100), Round2(score, tie)))

technical_determine_bias(score, trend, rsi) ==
    IF score >= Pts(70) THEN "Bullish"
    ELSE IF score >= Pts(55)
    THEN IF Gt(rsi, Pts(65)) THEN "Bullish but cautious" ELSE "Slightly Bullish"
    ELSE IF score >= Pts(45) THEN "Neutral"
    ELSE IF score >= Pts(30) THEN "Slightly Bearish"
    ELSE "Bearish"

technical_default ==
    [score |-> Pts(50), bias |-> "Unknown",
     insights |-> <<"Unable to fetch price data">>, indicators |-> <<>>]

\* TechnicalAnalyst.analyze
technical_analyze(ticker, tie) ==
    LET df == technical_fetch_price_data(ticker)
    IN  IF df = None \/ df.rows = 0 THEN technical_default
        ELSE
        LET ma_data == calculate_moving_averages(df)
            current_rsi == calculate_rsi(df)
            current_macd_hist == df.macd_histogram
            support_resistance == identify_support_resistance(df)
            trend == determine_trend(df, ma_data)
            breakout == detect_breakout(support_resistance)
            overbought_oversold == assess_overbought_oversold(current_rsi)
            price_range == Sub(support_resistance.resistance, support_resistance.support)
            price_position ==
                IF Gt(price_range, 0)
                THEN Div(Sub(support_resistance.current_price,
                             support_resistance.support), price_range)
                ELSE 500
            indicators == [rsi |-> current_rsi, trend |-> trend,
                           macd_histogram |-> current_macd_hist,
                           price_position |-> price_position]
            score == calculate_technical_score(indicators, tie)
        IN  [score |-> score,
             bias |-> technical_determine_bias(score, trend, current_rsi),
             insights |->
                (IF Gt(df.Close, ma_data.MA50) THEN <<"Price above 50-day MA">>
                 ELSE <<"Price below 50-day MA">>)
                \o <<overbought_oversold>>
                \o (IF breakout.breakout_detected THEN <<breakout.type>> ELSE <<>>),
             indicators |-> [rsi |-> current_rsi, trend |-> trend,
                             support_resistance |-> support_resistance,
                             breakout |-> breakout,
                             overbought_oversold |-> overbought_oversold,
                             moving_averages |-> ma_data]]

----------------------------------------------------------------------------
(* RiskManager *)

\* float('inf')
Inf == 999999999

\* df of RiskManager.fetch_price_data, or None when the fetch raises or the
\* frame is empty
risk_fetch_price_data(ticker) ==
    IF ticker.raises THEN None
    ELSE IF ticker.history.rows = 0 THEN None
    ELSE ticker.history

\* df.std252 is returns.std() * sqrt(252), as a fraction
calculate_volatility(df) ==
    [annual_volatility |-> Times(df.std252, 100, 1),
     recent_volatility |-> Times(df.recent_std252, 100, 1),
     volatility_trend |-> IF Gt(df.recent_std252, df.std252)
                          THEN "increasing" ELSE "decreasing"]

\* df.drawdown_min and df.drawdown_last are fractions
calculate_max_drawdown(df) ==
    [max_drawdown |-> Times(df.drawdown_min, 100, 1),
     current_drawdown |-> Times(df.drawdown_last, 100, 1)]

\* df.percentile5 is np.percentile(returns, 5)
calculate_var(df) == Times(df.percentile5, 100, 1)

\* df.sharpe is sqrt(252) * excess_returns.mean() / returns.std()
calculate_sharpe_ratio(df) == IF df.rows - 1 = 0 THEN 0 ELSE df.sharpe

\* df.gains and df.losses: the numbers of positive and negative returns;
\* df.gains_mean and df.losses_mean: their means
calculate_risk_reward_ratio(df) ==
    IF df.rows < 2 THEN 0
    ELSE IF df.losses = 0 THEN Inf
    ELSE LET avg_gain == IF df.gains > 0 THEN df.gains_mean ELSE 0
             avg_loss == Abs(df.losses_mean)
         IN  IF avg_loss = 0 THEN Inf ELSE Div(avg_gain, avg_loss)

\* account_size = 10000, risk_per_trade = 0.02
suggest_position_size(volatility, max_drawdown) ==
    LET risk_amount == Pts(200)
        stop_loss_pct == Times(volatility, 1, 2)
        max_position == Pts(2500)
    IN  IF stop_loss_pct = 0 THEN 0
        ELSE PyMin(Div(risk_amount, Div(stop_loss_pct, Pts(100))), max_position)

\* method = 'atr': the flat 5% stop
suggest_stop_loss(df, volatility) ==
    LET current_price == df.Close
        stop_loss == Times(current_price, 95, 100)
    IN  [stop_loss_price |-> stop_loss,
         stop_loss_percentage |-> Pts(5),
         distance_from_price |->
            Times(Div(Sub(current_price, stop_loss), current_price), 100, 1)]

volatility_points_inclusive(volatility) ==
    IF Ge(volatility, Pts(40)) THEN 40
    ELSE IF Ge(volatility, Pts(30)) THEN 30
    ELSE IF Ge(volatility, Pts(20)) THEN 20
    ELSE 10

volatility_points(volatility) ==
    IF Gt(volatility, Pts(40)) THEN 40
    ELSE IF Gt(volatility, Pts(30)) THEN 30
    ELSE IF Gt(volatility, Pts(20)) THEN 20
    ELSE 10

drawdown_points(max_drawdown) ==
    IF Gt(Abs(max_drawdown), Pts(30)) THEN 40
    ELSE IF Gt(Abs(max_drawdown), Pts(20)) THEN 30
    ELSE IF Gt(Abs(max_drawdown), Pts(10)) THEN 20
    ELSE 10

sharpe_points_from_zero(sharpe_ratio) ==
    IF Lt(sharpe_ratio, 0) THEN 20
    ELSE IF Lt(sharpe_ratio, 500) THEN 15
    ELSE IF Lt(sharpe_ratio, Pts(1)) THEN 10
    ELSE 0

sharpe_points(sharpe_ratio) ==
    IF Lt(sharpe_ratio, 0) THEN 20
    ELSE IF Lt(sharpe_ratio, 500) THEN 15
    ELSE IF Lt(sharpe_ratio, Pts(1)) THEN 10
    ELSE 5

\* risk_score of assess_risk_level
composite_risk_score(volatility, max_drawdown, sharpe_ratio) ==
    volatility_points(volatility) + drawdown_points(max_drawdown)
        + sharpe_points(sharpe_ratio)

assess_risk_level_medium(volatility, max_drawdown, sharpe_ratio) ==
    LET risk_score == composite_risk_score(volatility, max_drawdown, sharpe_ratio)
    IN  IF risk_score >= 70 THEN "Very High"
        ELSE IF risk_score >= 55 THEN "High"
        ELSE IF risk_score >= 40 THEN "Medium"
        ELSE IF risk_score >= 25 THEN "Low"
        ELSE "Very Low"

assess_risk_level(volatility, max_drawdown, sharpe_ratio) ==
    LET risk_score == composite_risk_score(volatility, max_drawdown, sharpe_ratio)
    IN  IF risk_score >= 70 THEN "Very High"
        ELSE IF risk_score >= 55 THEN "High"
        ELSE IF risk_score >= 40 THEN "Moderate"
        ELSE IF risk_score >= 25 THEN "Low"
        ELSE "Very Low"

generate_recommendations(risk_level, volatility, max_drawdown) ==
    LET recommendations ==
            (IF risk_level \in {"High", "Very High"}
             THEN <<"Reduce exposure", "Consider tighter stop-loss",
                    "Monitor closely for exit signals">>
             ELSE <<>>)
            \o (IF Gt(volatility, Pts(30))
                THEN <<"High volatility detected - consider smaller position size">>
                ELSE <<>>)
            \o (IF Gt(Abs(max_drawdown), Pts(20))
                THEN <<"Significant drawdown - review position">>
                ELSE <<>>)
    IN  IF recommendations = <<>> THEN <<"Risk levels acceptable">>
        ELSE recommendations

risk_default ==
    [risk_level |-> "Unknown", volatility |-> 0, max_drawdown |-> 0,
     recommendations |-> <<"Unable to fetch price data">>, metrics |-> <<>>]

\* RiskManager.analyze
risk_analyze(ticker) ==
    LET df == risk_fetch_price_data(ticker)
    IN  IF df = None \/ df.rows = 0 THEN risk_default
        ELSE
        LET volatility_data == calculate_volatility(df)
            drawdown_data == calculate_max_drawdown(df)
            sharpe == calculate_sharpe_ratio(df)
            risk_level == assess_risk_level(volatility_data.annual_volatility,
                                            drawdown_data.max_drawdown, sharpe)
        IN  [risk_level |-> risk_level,
             volatility |-> volatility_data.annual_volatility,
             max_drawdown |-> drawdown_data.max_drawdown,
             current_drawdown |-> drawdown_data.current_drawdown,
             var |-> calculate_var(df),
             sharpe_ratio |-> sharpe,
             risk_reward_ratio |-> calculate_risk_reward_ratio(df),
             recommendations |->
                generate_recommendations(risk_level,
                                         volatility_data.annual_volatility,
                                         drawdown_data.max_drawdown),
             position_size_suggestion |->
                suggest_position_size(volatility_data.annual_volatility,
                                      drawdown_data.max_drawdown),
             stop_loss |-> suggest_stop_loss(df, volatility_data.annual_volatility),
             metrics |-> [volatility_data |-> volatility_data,
                          drawdown_data |-> drawdown_data]]

----------------------------------------------------------------------------
(* DecisionEngine *)

weights_unnormalised ==
    [fundamental |-> 30, sentiment |-> 20, technical |-> 30, risk |-> 30]

\* self.weights, in hundredths
weights == [fundamental |-> 30, sentiment |-> 20, technical |-> 30, risk |-> 20]

risk_mapping ==
    [x \in {"Very Low", "Low", "Moderate", "High", "Very High", "Unknown"} |->
        CASE x = "Very Low"  -> 100
          [] x = "Low"       -> 80
          [] x = "Moderate"  -> 60
          [] x = "High"      -> 40
          [] x = "Very High" -> 20
          [] x = "Unknown"   -> 50]

normalize_risk_score_inverted(risk_level) ==
    IF risk_level \in DOMAIN risk_mapping
    THEN Pts(120 - risk_mapping[risk_level]) ELSE Pts(50)

normalize_risk_score(risk_level) ==
    IF risk_level \in DOMAIN risk_mapping
    THEN Pts(risk_mapping[risk_level]) ELSE Pts(50)

combine_scores_unweighted(fundamental_score, sentiment_score, technical_score, risk_score, tie) ==
    LET sum_x100 ==
            (fundamental_score + sentiment_score + technical_score + risk_score) * 25
    IN  10 * RoundDiv(sum_x100, 1000, tie)

combine_scores(fundamental_score, sentiment_score, technical_score, risk_score, tie) ==
    LET weighted_sum_x100 ==
            fundamental_score * weights.fundamental
            + sentiment_score * weights.sentiment
            + technical_score * weights.technical
            + risk_score * weights.risk
    IN  10 * RoundDiv(weighted_sum_x100, 1000, tie)

bullish_count_exact(biases) ==
    Cardinality({i \in 1..Len(biases) : biases[i] = "Bullish"})

bullish_count(biases) ==
    Cardinality({i \in 1..Len(biases) : Contains("Bullish", biases[i])})
bearish_count_exact(biases) ==
    Cardinality({i \in 1..Len(biases) : biases[i] = "Bearish"})

bearish_count(biases) ==
    Cardinality({i \in 1..Len(biases) : Contains("Bearish", biases[i])})
neutral_count(biases) ==
    Cardinality({i \in 1..Len(biases) : Contains("Neutral", biases[i])})

high_risk_resolution_by_count(biases) ==
    IF bullish_count(biases) >= 2
    THEN <<"Buy", "Strong fundamentals and sentiment, but elevated risk suggests caution">>
    ELSE IF bearish_count(biases) >= 2
    THEN <<"Sell", "Negative signals combined with high risk">>
    ELSE <<"Hold", "Mixed signals with high risk - wait for better entry">>

\* resolve_conflicts, the branch taken when risk_level is High or Very High
high_risk_resolution(biases) ==
    IF bullish_count(biases) >= 2
    THEN <<"Hold", "Strong fundamentals and sentiment, but elevated risk suggests caution">>
    ELSE IF bearish_count(biases) >= 2
    THEN <<"Avoid", "Negative signals combined with high risk">>
    ELSE <<"Hold", "Mixed signals with high risk - wait for better entry">>

normal_risk_resolution_majority(biases) ==
    IF bullish_count(biases) >= 2
    THEN <<"Buy", "Mostly positive signals with some neutral indicators">>
    ELSE IF bearish_count(biases) >= 2
    THEN <<"Sell", "Mostly negative signals">>
    ELSE <<"Hold", "Neutral or mixed signals - wait for clearer direction">>

\* resolve_conflicts, the branch taken otherwise
normal_risk_resolution(biases) ==
    IF bullish_count(biases) >= 3
    THEN <<"Buy", "Strong bullish consensus across multiple indicators">>
    ELSE IF bullish_count(biases) = 2 /\ neutral_count(biases) >= 1
    THEN <<"Buy", "Mostly positive signals with some neutral indicators">>
    ELSE IF bearish_count(biases) >= 3
    THEN <<"Sell", "Strong bearish consensus">>
    ELSE IF bearish_count(biases) = 2 /\ neutral_count(biases) >= 1
    THEN <<"Sell", "Mostly negative signals">>
    ELSE IF bullish_count(biases) = 2 /\ bearish_count(biases) = 1
    THEN <<"Hold", "Mixed signals - bullish technical/fundamental but bearish sentiment">>
    ELSE IF bearish_count(biases) = 2 /\ bullish_count(biases) = 1
    THEN <<"Hold", "Mixed signals - caution advised">>
    ELSE <<"Hold", "Neutral or mixed signals - wait for clearer direction">>

resolve_conflicts(biases, risk_level) ==
    IF risk_level \in {"High", "Very High"}
    THEN high_risk_resolution(biases)
    ELSE normal_risk_resolution(biases)

determine_recommendation_unfiltered(combined_score, biases, risk_level) ==
    LET conflict == resolve_conflicts(biases, risk_level)
    IN  IF combined_score >= Pts(70)
        THEN <<"Buy", "Strong overall score supports bullish position">>
        ELSE IF combined_score >= Pts(55) THEN conflict
        ELSE IF combined_score >= Pts(45)
        THEN <<"Hold", "Moderate score suggests waiting for better entry/exit">>
        ELSE IF combined_score >= Pts(30)
        THEN <<"Sell", "Weak overall score with negative signals">>
        ELSE <<"Sell", "Very weak overall score">>

determine_recommendation(combined_score, biases, risk_level) ==
    LET conflict == resolve_conflicts(biases, risk_level)
        conflict_recommendation == conflict[1]
        conflict_reason == conflict[2]
    IN  IF combined_score >= Pts(70)
        THEN IF conflict_recommendation = "Sell"
             THEN <<"Hold", conflict_reason>>
             ELSE <<"Buy", "Strong overall score supports bullish position">>
        ELSE IF combined_score >= Pts(55)
        THEN IF conflict_recommendation = "Sell"
             THEN <<"Hold", conflict_reason>>
             ELSE <<conflict_recommendation, conflict_reason>>
        ELSE IF combined_score >= Pts(45)
        THEN <<"Hold", "Moderate score suggests waiting for better entry/exit">>
        ELSE IF combined_score >= Pts(30)
        THEN IF conflict_recommendation = "Buy"
             THEN <<"Hold", "Low score but some positive signals - caution advised">>
             ELSE <<"Sell", "Weak overall score with negative signals">>
        ELSE <<"Sell", "Very weak overall score">>

calculate_confidence_inclusive(scores, biases) ==
    LET unique_biases == Range(biases)
        base == IF Cardinality(unique_biases) = 1 THEN 85
                ELSE IF Cardinality(unique_biases) = 2 THEN 65
                ELSE 45
        score_range == SetMax(Range(scores)) - SetMin(Range(scores))
        adjusted == IF score_range <= Pts(20) THEN base + 10
                    ELSE IF score_range >= Pts(40) THEN base - 10
                    ELSE base
    IN  PyMax(30, PyMin(95, adjusted))

\* confidence is a whole number of points
calculate_confidence(scores, biases) ==
    LET unique_biases == Range(biases)
        base == IF Cardinality(unique_biases) = 1 THEN 85
                ELSE IF Cardinality(unique_biases) = 2 THEN 65
                ELSE 45
        score_range == SetMax(Range(scores)) - SetMin(Range(scores))
        adjusted == IF score_range < Pts(20) THEN base + 10
                    ELSE IF score_range > Pts(40) THEN base - 10
                    ELSE base
    IN  PyMax(30, PyMin(95, adjusted))

----------------------------------------------------------------------------
(* Direct calls of the DecisionEngine's methods *)

\* bias labels handed to the engine's methods
Labels == {"Bullish", "Slightly Bullish", "Bullish but cautious", "Neutral",
           "Slightly Bearish", "Bearish", "Unknown", "bullish"}

\* risk levels handed to the engine's methods; the last is not in risk_mapping
RiskLevels == {"Very Low", "Low", "Moderate", "High", "Very High", "Unknown",
               "Extreme"}

\* scores around every threshold of determine_recommendation
CombinedScores == {0, 29990, 30000, 44990, 45000, 54990, 55000, 69990, 70000,
                   100000}

\* agent scores with two decimals, and two with three
ScoreInputs == {0, 10, 33330, 33333, 50000, 66667, 99990, 100000}

\* agent scores whose spreads straddle 20 and 40
SpreadScores == {0, 19990, 20000, 40000, 40010, 50000}

Triples(S) == {<<a, b, c>> : a \in S, b \in S, c \in S}

\* one direct call per behaviour, on a freshly constructed engine
Idle ==
    /\ pc = "idle"
    /\ call.op = "none"
    /\ request.entry = "none"
    /\ UNCHANGED <<pc, fundamental_analysis, sentiment_analysis,
                   technical_analysis, risk_analysis, final_decision,
                   caller, agent_calls>>

Call_normalize_risk_score ==
    /\ Idle
    /\ \E risk_level \in RiskLevels :
        call' = [op |-> "normalize_risk_score",
                 args |-> <<risk_level>>,
                 ret |-> normalize_risk_score(risk_level)]

Call_combine_scores ==
    /\ Idle
    /\ \E f \in ScoreInputs, s \in ScoreInputs, t \in ScoreInputs,
          r \in ScoreInputs, tie \in BOOLEAN :
        call' = [op |-> "combine_scores",
                 args |-> <<f, s, t, r>>,
                 ret |-> combine_scores(f, s, t, r, tie)]

Call_resolve_conflicts ==
    /\ Idle
    /\ \E biases \in Triples(Labels), risk_level \in RiskLevels :
        call' = [op |-> "resolve_conflicts",
                 args |-> <<biases, risk_level>>,
                 ret |-> resolve_conflicts(biases, risk_level)]

Call_determine_recommendation ==
    /\ Idle
    /\ \E combined_score \in CombinedScores,
          biases \in Triples(Labels \ {"bullish", "Bullish but cautious"}),
          risk_level \in RiskLevels \ {"Very Low", "Extreme"} :
        call' = [op |-> "determine_recommendation",
                 args |-> <<combined_score, biases, risk_level>>,
                 ret |-> determine_recommendation(combined_score, biases, risk_level)]

Call_calculate_confidence ==
    /\ Idle
    /\ \E f \in SpreadScores, s \in SpreadScores, t \in SpreadScores,
          r \in {Pts(20), Pts(50)},
          biases \in Triples({"Bullish", "Neutral", "Unknown"}) :
        call' = [op |-> "calculate_confidence",
                 args |-> <<(<<f, s, t, r>>), biases>>,
                 ret |-> calculate_confidence(<<f, s, t, r>>, biases)]

----------------------------------------------------------------------------
(* What the provider can return *)

\* ticker.financials: empty; growing and profitable; shrinking at a loss;
\* a single period; a previous revenue of 0; NaN cells
Financials ==
    << <<>>,
       ("Total Revenue" :> <<120000, 100000>>) @@ ("Net Income" :> <<30000, 20000>>),
       ("Total Revenue" :> <<80000, 100000>>) @@ ("Net Income" :> <<-10000, 5000>>),
       ("Total Revenue" :> <<100000>>),
       ("Total Revenue" :> <<100000, 0>>) @@ ("Net Income" :> <<8000, 0>>),
       ("Total Revenue" :> <<NaN, 100000>>) @@ ("Net Income" :> <<NaN, 1000>>) >>

\* ticker.balance_sheet: empty; low debt; high debt; no equity; no equity
\* row; debt of six times the equity
BalanceSheets ==
    << <<>>,
       ("Total Debt" :> <<20000>>) @@ ("Stockholders Equity" :> <<100000>>),
       ("Total Debt" :> <<150000>>) @@ ("Stockholders Equity" :> <<100000>>),
       ("Total Debt" :> <<50000>>) @@ ("Stockholders Equity" :> <<0>>),
       ("Total Debt" :> <<50000>>),
       ("Total Debt" :> <<600000>>) @@ ("Stockholders Equity" :> <<100000>>) >>

\* ticker.info: empty; every fallback field; a forward P/E only; NaN fields;
\* a trailing P/E given as a str
Infos ==
    << <<>>,
       [revenueGrowth |-> 250, profitMargins |-> 150, trailingPE |-> 20000,
        debtToEquity |-> 400, returnOnEquity |-> 180],
       [revenueGrowth |-> -300, trailingPE |-> 0, forwardPE |-> 35000,
        debtToEquity |-> 2500, returnOnEquity |-> 120],
       [revenueGrowth |-> NaN, profitMargins |-> NaN, trailingPE |-> NaN,
        debtToEquity |-> NaN, returnOnEquity |-> NaN],
       [revenueGrowth |-> 250, profitMargins |-> 150, trailingPE |-> StrValue,
        debtToEquity |-> 400, returnOnEquity |-> 180] >>

FundamentalTicker(raises, i, j, k) ==
    [raises |-> raises, info |-> Infos[k], financials |-> Financials[i],
     balance_sheet |-> BalanceSheets[j]]

\* the dates of news: today, last week's window, last month, no timestamp
Now == 20000

\* longest ticker.news
MaxNews == 3

\* an article: recent and positive, recent and negative, recent and mild,
\* old and positive, undated, recent with a title of None
Articles ==
    << [providerPublishTime |-> 19999, title |-> "up", polarity |-> 500],
       [providerPublishTime |-> 19998, title |-> "down", polarity |-> -500],
       [providerPublishTime |-> 19993, title |-> "flat", polarity |-> 50],
       [providerPublishTime |-> 19970, title |-> "old", polarity |-> 800],
       [title |-> "undated", polarity |-> -800],
       [providerPublishTime |-> 19999, title |-> NoneTitle, polarity |-> 0] >>

\* every ticker.news of at most MaxNews articles
NewsLists ==
    UNION {[1..n -> 1..Len(Articles)] : n \in 0..MaxNews}

SentimentTicker(raises, picks) ==
    [raises |-> raises, news |-> [i \in 1..Len(picks) |-> Articles[picks[i]]]]

\* price histories as the TechnicalAnalyst reads them
TechnicalHistory(rows, mean20, mean50, gl, macd, hl) ==
    [rows |-> rows, Close |-> Pts(100), mean20 |-> mean20, mean50 |-> mean50,
     gain14 |-> gl[1], loss14 |-> gl[2], macd_histogram |-> macd,
     high20 |-> hl[1], low20 |-> hl[2]]

HistoryRows == {0, 10, 30, 60}
Means20 == {Pts(95), Pts(100), Pts(105)}
Means50 == {Pts(90), Pts(100), Pts(110)}
GainsLosses == {<<0, 0>>, <<1000, 0>>, <<0, 1000>>, <<1000, 1000>>,
                <<3000, 1000>>, <<1000, 3000>>, <<9000, 1000>>}
MacdHistograms == {-500, 0, 5, 500}
HighsLows == {<<Pts(100), Pts(100)>>, <<Pts(110), Pts(90)>>,
              <<Pts(100), Pts(80)>>, <<Pts(120), Pts(100)>>}

\* price histories as the RiskManager reads them
RiskHistory(rows, std, dd, sharpe, loss_days) ==
    [rows |-> rows, Close |-> Pts(100), std252 |-> std, recent_std252 |-> 250,
     drawdown_min |-> dd, drawdown_last |-> 0, percentile5 |-> -20,
     sharpe |-> sharpe, gains |-> 30, gains_mean |-> 10,
     losses |-> loss_days, losses_mean |-> IF loss_days = 0 THEN NaN ELSE -5]

Stds == {150, 200, 250, 350, 450, NaN}
Drawdowns == {-50, -100, -150, -250, -350, NaN}
Sharpes == {-500, 0, 200, 500, 700, 1000, 1500, NaN, NpInf, NpNegInf}
LossDays == {0, 20}

Init ==
    /\ pc = "idle"
    /\ fundamental_analysis = None
    /\ sentiment_analysis = None
    /\ technical_analysis = None
    /\ risk_analysis = None
    /\ final_decision = None
    /\ call = [op |-> "none", args |-> <<>>, ret |-> None]
    /\ request = [entry |-> "none"]
    /\ response = None
    /\ engines = 0
    /\ agent_calls = <<>>
    /\ previous = None

----------------------------------------------------------------------------
(* Direct calls of the agents' analyze *)

Call_fundamental_analyze ==
    /\ Idle
    /\ \E raises \in BOOLEAN, i \in 1..Len(Financials), j \in 1..Len(BalanceSheets),
          k \in 1..Len(Infos), tie \in BOOLEAN :
        LET ticker == FundamentalTicker(raises, i, j, k)
        IN  call' = [op |-> "fundamental_analyze",
                     args |-> <<ticker>>,
                     ret |-> fundamental_analyze(ticker, tie)]

\* metric values around every threshold of normalize_score: percentages and
\* ratios in thousandths
MetricValues ==
    {-60000, -30000, -10000, -1000, 0, 200, 299, 300, 400, 499, 500, 900,
     999, 1000, 1500, 1999, 2000, 3000, 4000, 4999, 5000, 6000, 9000, 9999,
     10000, 12000, 14999, 15000, 17000, 20000, 22000, 25000, 25001, 28000,
     30000, 30001, 35000, 40000, 40001, 50000, 60000, 60001, 70000, NaN}

MetricTypes ==
    {"revenue_growth", "profit_margin", "pe_ratio", "debt_to_equity", "roe", "beta"}

Call_normalize_score ==
    /\ Idle
    /\ \E value \in MetricValues, metric_type \in MetricTypes :
        call' = [op |-> "normalize_score",
                 args |-> <<value, metric_type>>,
                 ret |-> normalize_score(value, metric_type)]

\* a long ticker.news: one article of last month, then n articles of the last
\* week, three a day, listed newest first or oldest first
FeedLengths == {0, 5, 20, 21, 24}

NewsFeed(n, newest_first) ==
    LET Day(i) == IF newest_first THEN (i - 1) \div 3 ELSE (n - i) \div 3
    IN  <<[providerPublishTime |-> Now - 30, title |-> "old", polarity |-> 0]>>
        \o [i \in 1..n |->
                [providerPublishTime |-> Now - Day(i), title |-> "recent",
                 polarity |-> 0]]

Call_fetch_news ==
    /\ Idle
    /\ \E raises \in BOOLEAN, n \in FeedLengths, newest_first \in BOOLEAN :
        LET ticker == [raises |-> raises, news |-> NewsFeed(n, newest_first)]
        IN  call' = [op |-> "fetch_news",
                     args |-> <<ticker, 7>>,
                     ret |-> fetch_news(ticker, 7, Now)]

Call_sentiment_analyze ==
    /\ Idle
    /\ \E raises \in BOOLEAN, picks \in NewsLists, tie \in BOOLEAN :
        LET ticker == SentimentTicker(raises, picks)
        IN  call' = [op |-> "sentiment_analyze",
                     args |-> <<ticker>>,
                     ret |-> sentiment_analyze(ticker, 7, Now, tie)]

Call_technical_analyze ==
    /\ Idle
    /\ \E raises \in BOOLEAN, rows \in HistoryRows, mean20 \in Means20,
          mean50 \in Means50, gl \in GainsLosses, macd \in MacdHistograms,
          hl \in HighsLows, tie \in BOOLEAN :
        LET ticker == [raises |-> raises,
                       history |-> TechnicalHistory(rows, mean20, mean50, gl, macd, hl)]
        IN  call' = [op |-> "technical_analyze",
                     args |-> <<ticker>>,
                     ret |-> technical_analyze(ticker, tie)]

\* the indicators dict calculate_technical_score reads
RsiValues == {0, 10000, 29000, 30000, 40000, 50000, 60000, 70000, 71000, 90000,
              100000, NaN}
Trends == {"Strong Uptrend", "Weak Uptrend", "Strong Downtrend", "Weak Downtrend",
           "Sideways", "Unknown"}
PricePositions == {0, 500, 1000}

Call_calculate_technical_score ==
    /\ Idle
    /\ \E rsi \in RsiValues, trend \in Trends, macd \in MacdHistograms,
          position \in PricePositions, tie \in BOOLEAN :
        LET indicators == [rsi |-> rsi, trend |-> trend, macd_histogram |-> macd,
                           price_position |-> position]
        IN  call' = [op |-> "calculate_technical_score",
                     args |-> <<indicators>>,
                     ret |-> calculate_technical_score(indicators, tie)]

Call_risk_analyze ==
    /\ Idle
    /\ \E raises \in BOOLEAN, rows \in {0, 40}, std \in Stds, dd \in Drawdowns,
          sharpe \in Sharpes, loss_days \in LossDays :
        LET ticker == [raises |-> raises,
                       history |-> RiskHistory(rows, std, dd, sharpe, loss_days)]
        IN  call' = [op |-> "risk_analyze",
                     args |-> <<ticker>>,
                     ret |-> risk_analyze(ticker)]

----------------------------------------------------------------------------
(* DecisionEngine.analyze, agent by agent *)

\* the fixtures the four agents draw from inside the pipeline
PipelineFundamental ==
    {<<TRUE, 1, 1, 1>>, <<FALSE, 1, 1, 1>>, <<FALSE, 2, 2, 2>>,
     <<FALSE, 3, 3, 3>>, <<FALSE, 6, 6, 4>>, <<FALSE, 2, 2, 5>>}
PipelineNews == {<<>>, <<1>>, <<2, 2>>, <<1, 3>>, <<4, 5>>, <<1, 6>>}
PipelineTechnical ==
    {<<0, Pts(100), Pts(100), <<0, 0>>, 0, <<Pts(100), Pts(100)>> >>,
     <<10, Pts(100), Pts(100), <<0, 0>>, 0, <<Pts(100), Pts(100)>> >>,
     <<60, Pts(95), Pts(90), <<3000, 1000>>, 500, <<Pts(100), Pts(80)>> >>,
     <<60, Pts(95), Pts(90), <<1000, 1000>>, 5, <<Pts(120), Pts(100)>> >>,
     <<60, Pts(105), Pts(110), <<1000, 3000>>, -500, <<Pts(120), Pts(100)>> >>,
     <<60, Pts(100), Pts(100), <<1000, 1000>>, 0, <<Pts(110), Pts(90)>> >>,
     <<60, Pts(100), Pts(100), <<3000, 1000>>, 500, <<Pts(110), Pts(90)>> >>}
PipelineRisk ==
    {<<0, 150, -50, 1500, 20>>, <<40, 150, -50, 1500, 20>>,
     <<40, 250, -150, 700, 20>>, <<40, 350, -250, 200, 0>>,
     <<40, 450, -350, -500, 20>>, <<40, NaN, NaN, NaN, 0>>,
     <<40, 0, 0, NpInf, 0>>}

\* what the provider holds for a symbol and how the roundings of its numbers
\* fall: fixed for these symbols, any data for every other symbol
ProviderData ==
    [symbol \in {"NVDA", "TSLA", "META", "AMZN"} |->
        CASE symbol = "NVDA" ->
                [fundamental |-> << <<FALSE, 3, 3, 3>>, TRUE >>,
                 news |-> <<FALSE, <<1, 3>>, TRUE>>,
                 technical |-> <<FALSE, <<60, Pts(95), Pts(90), <<3000, 1000>>,
                                          500, <<Pts(100), Pts(80)>> >>, TRUE>>,
                 risk |-> <<FALSE, <<40, 150, -50, 1500, 20>> >>,
                 tie |-> TRUE]
          [] symbol = "TSLA" ->
                [fundamental |-> << <<FALSE, 2, 2, 2>>, FALSE >>,
                 news |-> <<FALSE, <<2, 2>>, FALSE>>,
                 technical |-> <<FALSE, <<60, Pts(105), Pts(110), <<1000, 3000>>,
                                          -500, <<Pts(120), Pts(100)>> >>, FALSE>>,
                 risk |-> <<FALSE, <<40, 450, -350, -500, 20>> >>,
                 tie |-> FALSE]
          [] symbol = "META" ->
                [fundamental |-> << <<TRUE, 1, 1, 1>>, FALSE >>,
                 news |-> <<TRUE, <<1>>, FALSE>>,
                 technical |-> <<FALSE, <<10, Pts(100), Pts(100), <<0, 0>>, 0,
                                          <<Pts(100), Pts(100)>> >>, TRUE>>,
                 risk |-> <<FALSE, <<40, NaN, NaN, NaN, 0>> >>,
                 tie |-> TRUE]
          [] symbol = "AMZN" ->
                [fundamental |-> << <<FALSE, 6, 6, 4>>, TRUE >>,
                 news |-> <<FALSE, <<4, 5>>, TRUE>>,
                 technical |-> <<TRUE, <<60, Pts(100), Pts(100), <<1000, 1000>>, 0,
                                         <<Pts(110), Pts(90)>> >>, FALSE>>,
                 risk |-> <<FALSE, <<40, 0, 0, NpInf, 0>> >>,
                 tie |-> FALSE]]

\* the data an agent fetches for the symbol, with the rounding of its score
FundamentalInputs(symbol) ==
    IF symbol \in DOMAIN ProviderData THEN {ProviderData[symbol].fundamental}
    ELSE {<<f, tie>> : f \in PipelineFundamental, tie \in BOOLEAN}

NewsInputs(symbol) ==
    IF symbol \in DOMAIN ProviderData THEN {ProviderData[symbol].news}
    ELSE {<<raises, picks, tie>> :
            raises \in BOOLEAN, picks \in PipelineNews, tie \in BOOLEAN}

TechnicalInputs(symbol) ==
    IF symbol \in DOMAIN ProviderData THEN {ProviderData[symbol].technical}
    ELSE {<<raises, t, tie>> :
            raises \in BOOLEAN, t \in PipelineTechnical, tie \in BOOLEAN}

RiskInputs(symbol) ==
    IF symbol \in DOMAIN ProviderData THEN {ProviderData[symbol].risk}
    ELSE {<<raises, r>> : raises \in BOOLEAN, r \in PipelineRisk}

CombineTies(symbol) ==
    IF symbol \in DOMAIN ProviderData THEN {ProviderData[symbol].tie}
    ELSE BOOLEAN

\* engine.analyze(symbol), called on an engine the caller holds
AnalyzeCalled ==
    /\ pc = "idle"
    /\ call.op = "none"
    /\ request.entry = "none"
    /\ pc' = "fundamental"
    /\ \E symbol \in {"AAPL"} \cup DOMAIN ProviderData :
        request' = [entry |-> "engine", given |-> symbol, symbol |-> symbol]
    /\ UNCHANGED <<fundamental_analysis, sentiment_analysis, technical_analysis,
                   risk_analysis, final_decision, call, response, engines,
                   agent_calls, previous>>

\* engine.analyze(symbol) called a second time on the same engine, the
\* provider's data unchanged; the first Decision stays with the caller
AnalyzeAgain ==
    /\ pc = "done"
    /\ request.entry = "engine"
    /\ request.symbol \in DOMAIN ProviderData
    /\ previous = None
    /\ previous' = final_decision
    /\ pc' = "fundamental"
    /\ fundamental_analysis' = None
    /\ sentiment_analysis' = None
    /\ technical_analysis' = None
    /\ risk_analysis' = None
    /\ final_decision' = None
    /\ agent_calls' = <<>>
    /\ UNCHANGED <<call, request, response, engines>>

\* an agent's analyze returns, or its exception leaves DecisionEngine.analyze
RunFundamental ==
    /\ pc = "fundamental"
    /\ \E input \in FundamentalInputs(request.symbol) :
        LET f == input[1]
            tie == input[2]
            result == fundamental_analyze(FundamentalTicker(f[1], f[2], f[3], f[4]), tie)
        IN  IF result = Raised
            THEN pc' = "raised" /\ UNCHANGED fundamental_analysis
            ELSE pc' = "sentiment" /\ fundamental_analysis' = result
    /\ agent_calls' = Append(agent_calls, "fundamental")
    /\ UNCHANGED <<sentiment_analysis, technical_analysis, risk_analysis,
                   final_decision, call, caller>>

RunSentiment ==
    /\ pc = "sentiment"
    /\ \E input \in NewsInputs(request.symbol) :
        LET raises == input[1]
            picks == input[2]
            tie == input[3]
            result == sentiment_analyze(SentimentTicker(raises, picks), 7, Now, tie)
        IN  IF result = Raised
            THEN pc' = "raised" /\ UNCHANGED sentiment_analysis
            ELSE pc' = "technical" /\ sentiment_analysis' = result
    /\ agent_calls' = Append(agent_calls, "sentiment")
    /\ UNCHANGED <<fundamental_analysis, technical_analysis, risk_analysis,
                   final_decision, call, caller>>

RunTechnical ==
    /\ pc = "technical"
    /\ \E input \in TechnicalInputs(request.symbol) :
        LET raises == input[1]
            t == input[2]
            tie == input[3]
        IN  technical_analysis' =
                technical_analyze(
                    [raises |-> raises,
                     history |-> TechnicalHistory(t[1], t[2], t[3], t[4], t[5], t[6])],
                    tie)
    /\ pc' = "risk"
    /\ agent_calls' = Append(agent_calls, "technical")
    /\ UNCHANGED <<fundamental_analysis, sentiment_analysis, risk_analysis,
                   final_decision, call, caller>>

RunRisk ==
    /\ pc = "risk"
    /\ \E input \in RiskInputs(request.symbol) :
        LET raises == input[1]
            r == input[2]
        IN  risk_analysis' =
                risk_analyze([raises |-> raises,
                              history |-> RiskHistory(r[1], r[2], r[3], r[4], r[5])])
    /\ pc' = "combine"
    /\ agent_calls' = Append(agent_calls, "risk")
    /\ UNCHANGED <<fundamental_analysis, sentiment_analysis, technical_analysis,
                   final_decision, call, caller>>

Decision_crossed(fundamental, sentiment, technical, risk, tie) ==
    LET fundamental_score == fundamental.score
        sentiment_score == technical.score
        technical_score == sentiment.score
        risk_score == normalize_risk_score(risk.risk_level)
        scores == <<fundamental_score, sentiment_score, technical_score, risk_score>>
        biases == <<fundamental.bias, sentiment.bias, technical.bias>>
        combined_score == combine_scores(fundamental_score, sentiment_score,
                                         technical_score, risk_score, tie)
        recommendation == determine_recommendation(combined_score, biases,
                                                   risk.risk_level)
    IN  [recommendation |-> recommendation[1],
         confidence |-> calculate_confidence(scores, biases),
         combined_score |-> combined_score,
         reason |-> recommendation[2],
         agent_scores |-> [fundamental |-> fundamental_score,
                           sentiment |-> sentiment_score,
                           technical |-> technical_score,
                           risk |-> risk_score],
         agent_biases |-> [fundamental |-> fundamental.bias,
                           sentiment |-> sentiment.bias,
                           technical |-> technical.bias,
                           risk |-> risk.risk_level],
         detailed_analysis |-> [fundamental |-> fundamental,
                                sentiment |-> sentiment,
                                technical |-> technical,
                                risk |-> risk]]

\* the Decision compiled from the four results
Decision(fundamental, sentiment, technical, risk, tie) ==
    LET fundamental_score == fundamental.score
        sentiment_score == sentiment.score
        technical_score == technical.score
        risk_score == normalize_risk_score(risk.risk_level)
        scores == <<fundamental_score, sentiment_score, technical_score, risk_score>>
        biases == <<fundamental.bias, sentiment.bias, technical.bias>>
        combined_score == combine_scores(fundamental_score, sentiment_score,
                                         technical_score, risk_score, tie)
        recommendation == determine_recommendation(combined_score, biases,
                                                   risk.risk_level)
    IN  [recommendation |-> recommendation[1],
         confidence |-> calculate_confidence(scores, biases),
         combined_score |-> combined_score,
         reason |-> recommendation[2],
         agent_scores |-> [fundamental |-> fundamental_score,
                           sentiment |-> sentiment_score,
                           technical |-> technical_score,
                           risk |-> risk_score],
         agent_biases |-> [fundamental |-> fundamental.bias,
                           sentiment |-> sentiment.bias,
                           technical |-> technical.bias,
                           risk |-> risk.risk_level],
         detailed_analysis |-> [fundamental |-> fundamental,
                                sentiment |-> sentiment,
                                technical |-> technical,
                                risk |-> risk]]

Combine ==
    /\ pc = "combine"
    /\ \E tie \in CombineTies(request.symbol) :
        final_decision' = Decision(fundamental_analysis, sentiment_analysis,
                                   technical_analysis, risk_analysis, tie)
    /\ pc' = "done"
    /\ UNCHANGED <<fundamental_analysis, sentiment_analysis, technical_analysis,
                   risk_analysis, call, caller, agent_calls>>

----------------------------------------------------------------------------
(* make_json_serializable: the Decision as the HTTP handler emits it *)

\* a number: a numpy float that is NaN or infinite becomes None; a Python
\* float becomes None only when pd.isna holds of it, which is false of inf
serialize_number(obj) ==
    IF IsNaN(obj) THEN Null
    ELSE IF obj = NpInf \/ obj = NpNegInf THEN Null
    ELSE obj

\* a dict: the values under keys are numbers, the others strings, booleans or
\* dicts that are serialized on their own
Numbers(d, keys) ==
    [k \in DOMAIN d |-> IF k \in keys THEN serialize_number(d[k]) ELSE d[k]]

AllNumbers(d) == Numbers(d, DOMAIN d)

serialize_fundamental(analysis) ==
    [Numbers(analysis, {"score"}) EXCEPT !.metrics = AllNumbers(@)]

serialize_sentiment(analysis) ==
    [Numbers(analysis, {"score", "average_sentiment", "positive_percentage"})
        EXCEPT !.spike = Numbers(@, {"magnitude"})]

serialize_indicators(indicators) ==
    IF DOMAIN indicators = {} THEN indicators
    ELSE [Numbers(indicators, {"rsi"})
            EXCEPT !.support_resistance = AllNumbers(@),
                   !.moving_averages = AllNumbers(@)]

serialize_technical(analysis) ==
    [Numbers(analysis, {"score"}) EXCEPT !.indicators = serialize_indicators(@)]

serialize_risk_metrics(metrics) ==
    IF DOMAIN metrics = {} THEN metrics
    ELSE [volatility_data |->
            Numbers(metrics.volatility_data, {"annual_volatility", "recent_volatility"}),
          drawdown_data |-> AllNumbers(metrics.drawdown_data)]

serialize_risk(analysis) ==
    LET numbers == Numbers(analysis,
                       {"volatility", "max_drawdown", "current_drawdown", "var",
                        "sharpe_ratio", "risk_reward_ratio",
                        "position_size_suggestion"})
        nested == [numbers EXCEPT !.metrics = serialize_risk_metrics(@)]
    IN  IF "stop_loss" \in DOMAIN nested
        THEN [nested EXCEPT !.stop_loss = AllNumbers(@)]
        ELSE nested

make_json_serializable(decision) ==
    [Numbers(decision, {"confidence", "combined_score"})
        EXCEPT !.agent_scores = AllNumbers(@),
               !.detailed_analysis =
                    [fundamental |-> serialize_fundamental(@.fundamental),
                     sentiment |-> serialize_sentiment(@.sentiment),
                     technical |-> serialize_technical(@.technical),
                     risk |-> serialize_risk(@.risk)]]

----------------------------------------------------------------------------
(* The entry points: the HTTP /analyze handler and the CLI *)

Lower == "abcdefghijklmnopqrstuvwxyz"
UpperCase == "ABCDEFGHIJKLMNOPQRSTUVWXYZ"

\* str.upper() of one character
UpperChar(c) ==
    IF \E i \in 1..Len(Lower) : SubSeq(Lower, i, i) = c
    THEN LET i == CHOOSE i \in 1..Len(Lower) : SubSeq(Lower, i, i) = c
         IN  SubSeq(UpperCase, i, i)
    ELSE c

RECURSIVE Upper(_)
Upper(s) ==
    IF Len(s) = 0 THEN s
    ELSE UpperChar(SubSeq(s, 1, 1)) \o Upper(SubSeq(s, 2, Len(s)))

\* str.strip()
RECURSIVE Strip(_)
Strip(s) ==
    IF Len(s) = 0 THEN s
    ELSE IF SubSeq(s, 1, 1) = " " THEN Strip(SubSeq(s, 2, Len(s)))
    ELSE IF SubSeq(s, Len(s), Len(s)) = " " THEN Strip(SubSeq(s, 1, Len(s) - 1))
    ELSE s

\* request.get_json(): no JSON body; {}; symbols empty, blank, plain, padded
HttpBodies ==
    << None, <<>>, [symbol |-> ""], [symbol |-> "  "], [symbol |-> "aapl"],
       [symbol |-> " msft "] >>

\* sys.argv[1:] and the line input() reads
CliArgv == << <<>>, <<"">>, <<"  ">>, <<"aapl">> >>
CliStdin == {"", "  ", " msft "}

\* the handler's answer once engine.analyze returned (outcome "done") or
\* raised (outcome "raised")
http_response_success(outcome, decision) ==
    [status |-> 200, success |-> TRUE, decision |-> decision]

http_response(outcome, decision) ==
    IF outcome = "done"
    THEN [status |-> 200, success |-> TRUE,
          decision |-> make_json_serializable(decision)]
    ELSE [status |-> 500, success |-> FALSE, error |-> "exception"]

\* what main() prints once engine.analyze returned or raised
cli_report(outcome, decision) ==
    IF outcome = "done"
    THEN [printed |-> "FINAL DECISION", decision |-> decision]
    ELSE [printed |-> "Error during analysis"]

Entry ==
    /\ pc = "idle"
    /\ call.op = "none"
    /\ request.entry = "none"
    /\ UNCHANGED <<fundamental_analysis, sentiment_analysis, technical_analysis,
                   risk_analysis, final_decision, call, agent_calls, previous>>

\* POST /analyze up to the call of engine.analyze
HttpAnalyze ==
    /\ Entry
    /\ \E i \in 1..Len(HttpBodies) :
        LET data == HttpBodies[i]
        IN  IF "none" \in DOMAIN data
            THEN /\ request' = [entry |-> "http", given |-> "", symbol |-> ""]
                 /\ response' = [status |-> 500, success |-> FALSE,
                                 error |-> "exception"]
                 /\ UNCHANGED <<pc, engines>>
            ELSE LET given == Get(data, "symbol", "")
                     symbol == Upper(Strip(given))
                 IN  /\ request' = [entry |-> "http", given |-> given,
                                    symbol |-> symbol]
                     /\ IF symbol = ""
                        THEN /\ response' = [status |-> 400,
                                             error |-> "Stock symbol is required"]
                             /\ UNCHANGED <<pc, engines>>
                        ELSE /\ engines' = engines + 1
                             /\ pc' = "fundamental"
                             /\ UNCHANGED response

\* POST /analyze after engine.analyze returned or raised
HttpRespond ==
    /\ request.entry = "http"
    /\ pc \in {"done", "raised"}
    /\ response' = http_response(pc, final_decision)
    /\ pc' = "returned"
    /\ UNCHANGED <<fundamental_analysis, sentiment_analysis, technical_analysis,
                   risk_analysis, final_decision, call, request, engines,
                   agent_calls, previous>>

\* main() up to the call of engine.analyze
CliMain ==
    /\ Entry
    /\ \E i \in 1..Len(CliArgv), line \in CliStdin :
        LET argv == CliArgv[i]
            given == IF Len(argv) > 0 THEN argv[1] ELSE line
            symbol == IF Len(argv) > 0 THEN Upper(argv[1]) ELSE Upper(Strip(line))
        IN  /\ request' = [entry |-> "cli", given |-> given, symbol |-> symbol]
            /\ IF symbol = ""
               THEN /\ response' = [printed |-> "Error: No symbol provided."]
                    /\ UNCHANGED <<pc, engines>>
               ELSE /\ engines' = engines + 1
                    /\ pc' = "fundamental"
                    /\ UNCHANGED response

\* main() after engine.analyze returned or raised
CliReport ==
    /\ request.entry = "cli"
    /\ pc \in {"done", "raised"}
    /\ response' = cli_report(pc, final_decision)
    /\ pc' = "returned"
    /\ UNCHANGED <<fundamental_analysis, sentiment_analysis, technical_analysis,
                   risk_analysis, final_decision, call, request, engines,
                   agent_calls, previous>>

NextEngine ==
    \/ Call_normalize_risk_score
    \/ Call_combine_scores
    \/ Call_resolve_conflicts
    \/ Call_determine_recommendation
    \/ Call_calculate_confidence

NextAgents ==
    \/ Call_fundamental_analyze
    \/ Call_normalize_score
    \/ Call_fetch_news
    \/ Call_sentiment_analyze
    \/ Call_technical_analyze
    \/ Call_calculate_technical_score
    \/ Call_risk_analyze

NextAnalyze ==
    \/ AnalyzeCalled
    \/ AnalyzeAgain
    \/ RunFundamental
    \/ RunSentiment
    \/ RunTechnical
    \/ RunRisk
    \/ Combine

NextEntry ==
    \/ HttpAnalyze
    \/ HttpRespond
    \/ CliMain
    \/ CliReport

Next == NextEngine \/ NextAgents \/ NextAnalyze \/ NextEntry

Spec == Init /\ [][Next]_vars

----------------------------------------------------------------------------
(* Claims about the DecisionEngine's methods *)

\* the labels the specification counts as bullish, bearish and neutral
BullishLabels == {"Bullish", "Slightly Bullish", "Bullish but cautious"}
BearishLabels == {"Bearish", "Slightly Bearish"}
NeutralLabels == {"Neutral"}

NumIn(biases, S) == Cardinality({i \in 1..Len(biases) : biases[i] \in S})

\* op was called and returned
Called(op) ==
    /\ call.op = op
    /\ op \in {"fundamental_analyze", "sentiment_analyze", "technical_analyze",
               "risk_analyze"} => call.ret # Raised

\* C2: determine_recommendation filters the conflict recommendation of
\* resolve_conflicts by the combined score: >= 70 Buy unless the conflict
\* recommendation is Sell (then Hold); 55..70 the conflict recommendation
\* unless it is Sell (then Hold); 45..55 Hold; 30..45 Sell unless the conflict
\* recommendation is Buy (then Hold); below 30 Sell.
C2_ScoreFilter ==
    Called("determine_recommendation") =>
        LET combined == call.args[1]
            conflict == resolve_conflicts(call.args[2], call.args[3])[1]
            rec == call.ret[1]
        IN  /\ combined >= 70000 =>
                rec = (IF conflict = "Sell" THEN "Hold" ELSE "Buy")
            /\ (combined >= 55000 /\ combined < 70000) =>
                rec = (IF conflict = "Sell" THEN "Hold" ELSE conflict)
            /\ (combined >= 45000 /\ combined < 55000) => rec = "Hold"
            /\ (combined >= 30000 /\ combined < 45000) =>
                rec = (IF conflict = "Buy" THEN "Hold" ELSE "Sell")
            /\ combined < 30000 => rec = "Sell"
            /\ (conflict = "Sell" /\ combined >= 55000) => rec = "Hold"

\* a bearish consensus at low risk and a score of 70 or more: Sell is
\* downgraded to Hold
C2_Witness ==
    /\ Called("determine_recommendation")
    /\ call.args[1] >= 70000
    /\ call.args[2] = <<"Bearish", "Bearish", "Bearish">>
    /\ call.args[3] = "Low"
    /\ call.ret[1] = "Hold"

\* C3: at risk level High or Very High resolve_conflicts returns Hold when at
\* least two biases are bullish, Avoid when at least two are bearish, and Hold
\* otherwise; never Buy or Sell.
C3_HighRiskConservative ==
    (Called("resolve_conflicts") /\ call.args[2] \in {"High", "Very High"}) =>
        LET biases == call.args[1]
            rec == call.ret[1]
        IN  /\ rec \in {"Hold", "Avoid"}
            /\ rec = (IF NumIn(biases, BullishLabels) >= 2 THEN "Hold"
                      ELSE IF NumIn(biases, BearishLabels) >= 2 THEN "Avoid"
                      ELSE "Hold")

C3_Witness ==
    /\ Called("resolve_conflicts")
    /\ call.args[2] = "Very High"
    /\ NumIn(call.args[1], BearishLabels) >= 2
    /\ call.ret[1] = "Avoid"

\* C4: at any other risk level resolve_conflicts returns Buy exactly for three
\* bullish or two bullish and a neutral, Sell exactly for three bearish or two
\* bearish and a neutral, Hold in every other case, and never Avoid.
C4_NormalRiskResolution ==
    (Called("resolve_conflicts") /\ call.args[2] \notin {"High", "Very High"}) =>
        LET biases == call.args[1]
            rec == call.ret[1]
            bull == NumIn(biases, BullishLabels)
            bear == NumIn(biases, BearishLabels)
            neut == NumIn(biases, NeutralLabels)
            buy == bull = 3 \/ (bull = 2 /\ neut >= 1)
            sell == bear = 3 \/ (bear = 2 /\ neut >= 1)
        IN  /\ rec = "Buy" <=> buy
            /\ rec = "Sell" <=> sell
            /\ rec = "Hold" <=> (~buy /\ ~sell)
            /\ rec # "Avoid"

\* two bullish and one label that is in none of the three groups: Hold
C4_Witness ==
    /\ Called("resolve_conflicts")
    /\ call.args[2] = "Moderate"
    /\ call.args[1] = <<"Bullish", "Unknown", "Slightly Bullish">>
    /\ call.ret[1] = "Hold"

IsTwoDecimal(x) == x % 10 = 0

C6_Confidence ==
    Called("calculate_confidence") =>
        LET scores == call.args[1]
            b == call.args[2]
            base == IF b[1] = b[2] /\ b[2] = b[3] THEN 85
                    ELSE IF b[1] # b[2] /\ b[2] # b[3] /\ b[1] # b[3] THEN 45
                    ELSE 65
            spread == SetMax(Range(scores)) - SetMin(Range(scores))
            moved == IF spread < 20000 THEN base + 10
                     ELSE IF spread > 40000 THEN base - 10
                     ELSE base
            clamped == IF moved > 95 THEN 95 ELSE IF moved < 30 THEN 30 ELSE moved
        IN  /\ call.ret = clamped
            /\ (base = 85 /\ spread < 20000) => call.ret = 95
            /\ (base = 45 /\ spread > 40000) => call.ret = 35

\* three distinct biases and a spread of exactly 40: 45, unchanged
C6_Witness ==
    /\ Called("calculate_confidence")
    /\ Cardinality(Range(call.args[2])) = 3
    /\ SetMax(Range(call.args[1])) - SetMin(Range(call.args[1])) = 40000
    /\ call.ret = 45

\* C8: a bias counts as bullish, bearish or neutral when its text contains
\* 'Bullish', 'Bearish' or 'Neutral' (case-sensitive): 'Slightly Bullish' and
\* 'Bullish but cautious' are bullish, 'Slightly Bearish' is bearish, and
\* 'Unknown' is in no group, so the three counts can sum to less than 3.
C8_SubstringClassification ==
    Called("resolve_conflicts") =>
        LET biases == call.args[1]
        IN  /\ bullish_count(biases) = NumIn(biases, BullishLabels)
            /\ bearish_count(biases) = NumIn(biases, BearishLabels)
            /\ neutral_count(biases) = NumIn(biases, NeutralLabels)
            /\ ("Unknown" \in Range(biases) \/ "bullish" \in Range(biases)) =>
                    bullish_count(biases) + bearish_count(biases)
                        + neutral_count(biases) < 3
            /\ (call.args[2] = "Low" /\ Range(biases) \subseteq BullishLabels) =>
                    call.ret[1] = "Buy"

\* the two longer bullish labels and an Unknown: two bullish, no neutral
C8_Witness ==
    /\ Called("resolve_conflicts")
    /\ call.args[1] = <<"Slightly Bullish", "Bullish but cautious", "Unknown">>
    /\ call.args[2] = "Low"
    /\ bullish_count(call.args[1]) = 2
    /\ call.ret[1] = "Hold"

----------------------------------------------------------------------------
(* Claims about the agents and the Decision *)

InScoreRange(x) == ~IsNaN(x) /\ 0 <= x /\ x <= 100000

Decided == final_decision # None

\* C1: in every Decision the four agent scores and the combined score lie in
\* [0,100] and the confidence in [30,95], whatever the provider returned; the
\* same holds of the score of every agent's analyze on its own.
C1_ScoresInRange ==
    /\ Decided =>
        /\ InScoreRange(final_decision.agent_scores.fundamental)
        /\ InScoreRange(final_decision.agent_scores.sentiment)
        /\ InScoreRange(final_decision.agent_scores.technical)
        /\ InScoreRange(final_decision.agent_scores.risk)
        /\ InScoreRange(final_decision.combined_score)
        /\ 30 <= final_decision.confidence /\ final_decision.confidence <= 95
    /\ (Called("fundamental_analyze") \/ Called("sentiment_analyze")
            \/ Called("technical_analyze")) => InScoreRange(call.ret.score)
    /\ Called("risk_analyze") =>
            InScoreRange(normalize_risk_score(call.ret.risk_level))
    /\ Called("calculate_confidence") => (30 <= call.ret /\ call.ret <= 95)

\* a Decision whose technical score is the upper end of the range: the RSI of
\* a history shorter than its window is NaN
C1_Witness ==
    /\ Decided
    /\ final_decision.agent_biases.technical # "Unknown"
    /\ IsNaN(final_decision.detailed_analysis.technical.indicators.rsi)
    /\ final_decision.agent_scores.technical = 100000
    /\ final_decision.agent_scores.fundamental = 0

\* the lookup of normalize_risk_score as the specification gives it
RiskScoreTable(risk_level) ==
    CASE risk_level = "Very Low"  -> 100000
      [] risk_level = "Low"       -> 80000
      [] risk_level = "Moderate"  -> 60000
      [] risk_level = "High"      -> 40000
      [] risk_level = "Very High" -> 20000
      [] risk_level = "Unknown"   -> 50000
      [] OTHER                    -> 50000

RiskOrder == <<"Very Low", "Low", "Moderate", "High", "Very High">>

\* C7: in every Decision agent_scores.risk is the lookup of agent_biases.risk:
\* Very Low 100, Low 80, Moderate 60, High 40, Very High 20, Unknown 50, any
\* other value 50; a lower risk level gives a strictly higher score.
C7_RiskScoreLookup ==
    /\ Decided =>
        final_decision.agent_scores.risk =
            RiskScoreTable(final_decision.agent_biases.risk)
    /\ Called("normalize_risk_score") => call.ret = RiskScoreTable(call.args[1])
    /\ \A i \in 1..Len(RiskOrder), j \in 1..Len(RiskOrder) :
        i < j => normalize_risk_score(RiskOrder[i]) > normalize_risk_score(RiskOrder[j])

C7_Witness ==
    /\ Decided
    /\ final_decision.agent_biases.risk = "Very High"
    /\ final_decision.agent_scores.risk = 20000

FiveBiases == {"Bullish", "Slightly Bullish", "Neutral", "Slightly Bearish", "Bearish"}
SixRiskLevels == {"Very Low", "Low", "Moderate", "High", "Very High", "Unknown"}

\* C9 as stated: the bias of the fundamental, sentiment and technical agents
\* is one of Bullish, Slightly Bullish, Neutral, Slightly Bearish, Bearish, and
\* the risk level is one of Very Low, Low, Moderate, High, Very High, Unknown.
C9_FiveBiases ==
    /\ Decided =>
        /\ final_decision.agent_biases.fundamental \in FiveBiases
        /\ final_decision.agent_biases.sentiment \in FiveBiases
        /\ final_decision.agent_biases.technical \in FiveBiases
        /\ final_decision.agent_biases.risk \in SixRiskLevels
    /\ (Called("fundamental_analyze") \/ Called("sentiment_analyze")
            \/ Called("technical_analyze")) => call.ret.bias \in FiveBiases
    /\ Called("risk_analyze") => call.ret.risk_level \in SixRiskLevels

BiasesOf(agent) ==
    CASE agent = "fundamental" -> FiveBiases \cup {"Unknown"}
      [] agent = "sentiment"   -> FiveBiases
      [] agent = "technical"   -> FiveBiases \cup {"Bullish but cautious", "Unknown"}

\* C9, amended: the sentiment bias is one of the five labels; the fundamental
\* bias is one of the five or Unknown (no metrics); the technical bias is one
\* of the five, Bullish but cautious, or Unknown (no price data); the risk
\* level is one of Very Low, Low, Moderate, High, Very High, Unknown.
C9_BiasLabels ==
    /\ Decided =>
        /\ final_decision.agent_biases.fundamental \in BiasesOf("fundamental")
        /\ final_decision.agent_biases.sentiment \in BiasesOf("sentiment")
        /\ final_decision.agent_biases.technical \in BiasesOf("technical")
        /\ final_decision.agent_biases.risk \in SixRiskLevels
    /\ Called("fundamental_analyze") => call.ret.bias \in BiasesOf("fundamental")
    /\ Called("sentiment_analyze") => call.ret.bias \in BiasesOf("sentiment")
    /\ Called("technical_analyze") => call.ret.bias \in BiasesOf("technical")
    /\ Called("risk_analyze") => call.ret.risk_level \in SixRiskLevels

\* a Decision with the two labels outside the five
C9_Witness ==
    /\ Decided
    /\ final_decision.agent_biases.fundamental = "Unknown"
    /\ final_decision.agent_biases.technical = "Bullish but cautious"
    /\ final_decision.agent_biases.risk = "Moderate"

\* C10: when the fetch fails or returns nothing, SentimentAnalyst.analyze
\* returns score 50, bias Neutral and 0 articles, TechnicalAnalyst.analyze
\* returns score 50 and bias Unknown, and RiskManager.analyze returns risk
\* level Unknown, volatility 0, max drawdown 0 and the single recommendation
\* that notes the missing data.
C10_NoDataDefaults ==
    /\ (Called("sentiment_analyze")
            /\ (call.args[1].raises \/ call.args[1].news = <<>>)) =>
        /\ call.ret.score = 50000
        /\ call.ret.bias = "Neutral"
        /\ call.ret.total_articles = 0
    /\ (Called("technical_analyze")
            /\ (call.args[1].raises \/ call.args[1].history.rows = 0)) =>
        /\ call.ret.score = 50000
        /\ call.ret.bias = "Unknown"
    /\ (Called("risk_analyze")
            /\ (call.args[1].raises \/ call.args[1].history.rows = 0)) =>
        /\ call.ret.risk_level = "Unknown"
        /\ call.ret.volatility = 0
        /\ call.ret.max_drawdown = 0
        /\ call.ret.recommendations = <<"Unable to fetch price data">>
    /\ (Decided /\ final_decision.agent_biases.technical = "Unknown") =>
        final_decision.agent_scores.technical = 50000
    /\ (Decided /\ final_decision.agent_biases.risk = "Unknown") =>
        /\ final_decision.detailed_analysis.risk.volatility = 0
        /\ final_decision.detailed_analysis.risk.max_drawdown = 0

\* a Decision made when the news, the technical and the risk fetch all gave
\* nothing
C10_Witness ==
    /\ Decided
    /\ final_decision.detailed_analysis.sentiment.total_articles = 0
    /\ final_decision.agent_scores.sentiment = 50000
    /\ final_decision.agent_biases.sentiment = "Neutral"
    /\ final_decision.agent_biases.technical = "Unknown"
    /\ final_decision.agent_biases.risk = "Unknown"
    /\ Len(final_decision.detailed_analysis.risk.recommendations) = 1

----------------------------------------------------------------------------
(* Claims about failures and the callers *)

\* the provider answered, with nothing in info, financials or balance sheet
NothingToDerive(ticker) ==
    /\ ~ticker.raises
    /\ Empty(ticker.info) /\ Empty(ticker.financials) /\ Empty(ticker.balance_sheet)

\* C11 as stated: when the fetch fails or yields nothing to derive a metric
\* from, FundamentalAnalyst.analyze returns score 0, bias Unknown, the single
\* insight 'Unable to fetch financial data' and empty metrics.
C11_NoMetricsDefault ==
    (Called("fundamental_analyze")
        /\ (call.args[1].raises \/ NothingToDerive(call.args[1]))) =>
            call.ret = fundamental_default

\* C11, amended: when the fetch fails, analyze returns score 0, bias Unknown,
\* the single insight 'Unable to fetch financial data' and empty metrics; when
\* the fetch succeeds with nothing to derive a metric from, every metric is 0
\* and the result is the scored one: 35.5, Slightly Bearish.
C11_FetchFailureDefault ==
    /\ (Called("fundamental_analyze") /\ call.args[1].raises) =>
        /\ call.ret.score = 0
        /\ call.ret.bias = "Unknown"
        /\ call.ret.insights = <<"Unable to fetch financial data">>
        /\ call.ret.metrics = <<>>
    /\ (Called("fundamental_analyze") /\ NothingToDerive(call.args[1])) =>
        /\ \A m \in DOMAIN fundamental_weights : call.ret.metrics[m] = 0
        /\ call.ret.score = 35500
        /\ call.ret.bias = "Slightly Bearish"
    /\ (Decided /\ final_decision.agent_biases.fundamental = "Unknown") =>
        /\ final_decision.agent_scores.fundamental = 0
        /\ final_decision.detailed_analysis.fundamental.metrics = <<>>

C11_Witness ==
    /\ Called("fundamental_analyze")
    /\ call.args[1].raises
    /\ call.ret.bias = "Unknown"

AnalyzeOps == {"fundamental_analyze", "sentiment_analyze", "technical_analyze",
               "risk_analyze"}

\* C12: a fault raised while fetching or computing inside an agent's analyze
\* is replaced by the agent's default result: analyze of each of the four
\* agents returns a result and never raises, and DecisionEngine.analyze never
\* sees an agent raise.
C12_AgentsNeverRaise ==
    /\ call.op \in AnalyzeOps => call.ret # Raised
    /\ pc # "raised"

\* C13: when an agent's analyze raises, DecisionEngine.analyze stops there and
\* returns no Decision; the HTTP handler then answers success = false with an
\* error message and no decision field, and the CLI prints an error and no
\* final decision
C13_RaisePropagates ==
    /\ pc = "raised" =>
        /\ final_decision = None
        /\ Len(agent_calls) \in 1..4
        /\ agent_calls[Len(agent_calls)] = "fundamental" =>
            fundamental_analysis = None
        /\ agent_calls[Len(agent_calls)] = "sentiment" => sentiment_analysis = None
    /\ (pc = "returned" /\ risk_analysis = None) =>
        /\ final_decision = None
        /\ "decision" \notin DOMAIN response
        /\ request.entry = "http" =>
            /\ response.success = FALSE
            /\ "error" \in DOMAIN response
            /\ response.status = 500
        /\ request.entry = "cli" => response.printed = "Error during analysis"

C13_Witness ==
    /\ pc = "returned"
    /\ request.entry = "http"
    /\ agent_calls = <<"fundamental", "sentiment">>
    /\ response.success = FALSE

\* the symbol the caller gave is empty or only whitespace (a missing symbol
\* is given as "")
Blank(given) == Strip(given) = ""

\* C14: an empty, whitespace-only or missing symbol is rejected before the
\* pipeline, in the HTTP handler and in the CLI: no DecisionEngine is
\* constructed and no agent's analyze is called
C14_BlankSymbolRejected ==
    (request.entry \in {"http", "cli"} /\ Blank(request.given)) =>
        /\ engines = 0
        /\ agent_calls = <<>>
        /\ pc = "idle"

FiniteOrNull(x) == x = Null \/ x \notin {NaN, Inf, NpInf, NpNegInf}

NumbersFinite(d, keys) == \A k \in keys \cap DOMAIN d : FiniteOrNull(d[k])

\* C15: every numeric value in the payload of /analyze is finite or null:
\* make_json_serializable replaces every NaN and every infinity, Python floats
\* such as the infinite risk-reward ratio included
C15_PayloadFinite ==
    (request.entry = "http" /\ "decision" \in DOMAIN response) =>
        LET decision == response.decision
            analysis == decision.detailed_analysis
        IN  /\ NumbersFinite(decision, {"confidence", "combined_score"})
            /\ NumbersFinite(decision.agent_scores, DOMAIN decision.agent_scores)
            /\ NumbersFinite(analysis.fundamental, {"score"})
            /\ NumbersFinite(analysis.fundamental.metrics,
                             DOMAIN analysis.fundamental.metrics)
            /\ NumbersFinite(analysis.sentiment,
                             {"score", "average_sentiment", "positive_percentage"})
            /\ NumbersFinite(analysis.technical, {"score"})
            /\ NumbersFinite(analysis.technical.indicators, {"rsi"})
            /\ NumbersFinite(analysis.risk,
                             {"volatility", "max_drawdown", "current_drawdown",
                              "var", "sharpe_ratio", "risk_reward_ratio",
                              "position_size_suggestion"})

\* the engine is in its second call on the same provider data
Repeated == previous # None

AgentOrder == <<"fundamental", "sentiment", "technical", "risk">>

\* C17: in one call DecisionEngine.analyze invokes the four agents once each,
\* in the order fundamental, sentiment, technical, risk; the Decision exists
\* only after all four have returned, and its scores and biases are those the
\* four calls returned (the risk score being the lookup of the risk level)
C17_AgentsOnceInOrder ==
    /\ Len(agent_calls) <= 4
    /\ agent_calls = SubSeq(AgentOrder, 1, Len(agent_calls))
    /\ pc \in {"combine", "done"} => agent_calls = AgentOrder
    /\ Decided =>
        /\ agent_calls = AgentOrder
        /\ fundamental_analysis # None /\ sentiment_analysis # None
        /\ technical_analysis # None /\ risk_analysis # None
        /\ final_decision.agent_scores.fundamental = fundamental_analysis.score
        /\ final_decision.agent_scores.sentiment = sentiment_analysis.score
        /\ final_decision.agent_scores.technical = technical_analysis.score
        /\ final_decision.agent_biases.fundamental = fundamental_analysis.bias
        /\ final_decision.agent_biases.sentiment = sentiment_analysis.bias
        /\ final_decision.agent_biases.technical = technical_analysis.bias
        /\ final_decision.agent_biases.risk = risk_analysis.risk_level
        /\ final_decision.agent_scores.risk
            = RiskScoreTable(risk_analysis.risk_level)
        /\ final_decision.combined_score
            \in {10 * RoundDiv(3 * fundamental_analysis.score
                                + 2 * sentiment_analysis.score
                                + 3 * technical_analysis.score
                                + 2 * final_decision.agent_scores.risk,
                               100, tie) : tie \in BOOLEAN}

C17_Witness ==
    /\ Decided
    /\ agent_calls = AgentOrder
    /\ sentiment_analysis.score # technical_analysis.score
    /\ sentiment_analysis.score # fundamental_analysis.score
    /\ final_decision.agent_scores.technical = technical_analysis.score

\* the score and the bias the claim derives from the metrics of a result
WeightedScores(result) ==
    LET Normalized(m) == normalize_score(result.metrics[m], m)
        sum_x100 == 25 * Normalized("revenue_growth")
                    + 25 * Normalized("profit_margin")
                    + 20 * Normalized("pe_ratio")
                    + 15 * Normalized("debt_to_equity")
                    + 15 * Normalized("roe")
    IN  {10 * RoundDiv(sum_x100, 1000, tie) : tie \in BOOLEAN}

BiasOfScore(score) ==
    IF score >= 75000 THEN "Bullish"
    ELSE IF score >= 60000 THEN "Slightly Bullish"
    ELSE IF score >= 45000 THEN "Neutral"
    ELSE IF score >= 30000 THEN "Slightly Bearish"
    ELSE "Bearish"

Successful(result) == result # None /\ result # Raised /\ result.bias # "Unknown"

\* C18: the score of a successful fundamental analysis is the sum of the five
\* normalized metric scores weighted 0.25, 0.25, 0.20, 0.15, 0.15, rounded to
\* two decimals, and its bias follows from the score alone: >= 75 Bullish,
\* >= 60 Slightly Bullish, >= 45 Neutral, >= 30 Slightly Bearish, else Bearish
C18_WeightedScoreAndBias ==
    /\ (call.op = "fundamental_analyze" /\ Successful(call.ret)) =>
        /\ call.ret.score \in WeightedScores(call.ret)
        /\ call.ret.bias = BiasOfScore(call.ret.score)
    /\ Successful(fundamental_analysis) =>
        /\ fundamental_analysis.score \in WeightedScores(fundamental_analysis)
        /\ fundamental_analysis.bias = BiasOfScore(fundamental_analysis.score)

C18_Witness ==
    /\ call.op = "fundamental_analyze"
    /\ Successful(call.ret)
    /\ call.ret.bias = "Slightly Bullish"
    /\ call.ret.metrics.debt_to_equity > 0

\* the level the claim's table gives; a NaN input satisfies no comparison
RiskLevelTable(volatility, max_drawdown, sharpe_ratio) ==
    LET depth == Abs(max_drawdown)
        sum == (IF Gt(volatility, 40000) THEN 40
                ELSE IF Gt(volatility, 30000) THEN 30
                ELSE IF Gt(volatility, 20000) THEN 20 ELSE 10)
               + (IF Gt(depth, 30000) THEN 40
                  ELSE IF Gt(depth, 20000) THEN 30
                  ELSE IF Gt(depth, 10000) THEN 20 ELSE 10)
               + (IF Lt(sharpe_ratio, 0) THEN 20
                  ELSE IF Lt(sharpe_ratio, 500) THEN 15
                  ELSE IF Lt(sharpe_ratio, 1000) THEN 10 ELSE 5)
    IN  IF sum >= 70 THEN "Very High"
        ELSE IF sum >= 55 THEN "High"
        ELSE IF sum >= 40 THEN "Moderate"
        ELSE IF sum >= 25 THEN "Low"
        ELSE "Very Low"

Assessed(result) == result # None /\ result.risk_level # "Unknown"

\* C19: the risk level is the class of the sum of three contributions:
\* volatility (> 40: 40, > 30: 30, > 20: 20, else 10), absolute max drawdown
\* (> 30: 40, > 20: 30, > 10: 20, else 10) and Sharpe ratio (< 0: 20, < 0.5:
\* 15, < 1: 10, else 5); >= 70 Very High, >= 55 High, >= 40 Moderate,
\* >= 25 Low, else Very Low
C19_RiskLevelTable ==
    /\ (call.op = "risk_analyze" /\ Assessed(call.ret)) =>
        call.ret.risk_level = RiskLevelTable(call.ret.volatility,
                                             call.ret.max_drawdown,
                                             call.ret.sharpe_ratio)
    /\ Assessed(risk_analysis) =>
        risk_analysis.risk_level = RiskLevelTable(risk_analysis.volatility,
                                                  risk_analysis.max_drawdown,
                                                  risk_analysis.sharpe_ratio)

C19_Witness ==
    /\ call.op = "risk_analyze"
    /\ Assessed(call.ret)
    /\ call.ret.volatility = 20000
    /\ call.ret.max_drawdown = -15000
    /\ call.ret.sharpe_ratio = 700
    /\ call.ret.risk_level = "Moderate"

\* the curve of the call's metric never decreases from the call's value on
RisesFrom(value, metric_type, score) ==
    \A higher \in MetricValues :
        Ge(higher, value) => normalize_score(higher, metric_type) >= score

\* the curve of the call's metric never increases from the call's value on
FallsFrom(value, metric_type, score) ==
    \A higher \in MetricValues :
        Ge(higher, value) => normalize_score(higher, metric_type) <= score

\* the P/E curve never increases away from the band of 15 to 25
FallsAwayFromBand(value, score) ==
    /\ Ge(value, 25000) => FallsFrom(value, "pe_ratio", score)
    /\ Le(value, 15000) =>
        \A lower \in MetricValues :
            Le(lower, value) => normalize_score(lower, "pe_ratio") <= score

C20_Rising ==
    (Called("normalize_score")
     /\ call.args[2] \in {"revenue_growth", "profit_margin", "roe"}) =>
        RisesFrom(call.args[1], call.args[2], call.ret)

C20_PeBand ==
    (Called("normalize_score") /\ call.args[2] = "pe_ratio") =>
        FallsAwayFromBand(call.args[1], call.ret)

C20_InRange ==
    Called("normalize_score") => call.ret >= 0 /\ call.ret <= 100000

\* C20: every normalization curve maps its metric into [0,100] monotonically:
\* the revenue_growth, profit_margin and roe scores never decrease as the
\* metric increases, the debt_to_equity score never increases as the ratio
\* increases, and the pe_ratio score never increases as the ratio moves away
\* from the band of 15 to 25 on either side
C20_MonotonicCurves ==
    /\ C20_InRange
    /\ C20_Rising
    /\ C20_PeBand
    /\ (Called("normalize_score") /\ call.args[2] = "debt_to_equity") =>
        FallsFrom(call.args[1], call.args[2], call.ret)

----------------------------------------------------------------------------
(* Claims about the curves, the indicators and the final rules *)

\* the documented revenue growth curve, v in thousandths of a percent
RevenueGrowthCurve(v) ==
    IF v >= 20000 THEN 100000
    ELSE IF v >= 10000 THEN 70000 + 3 * (v - 10000)
    ELSE IF v >= 0 THEN 50000 + 2 * v
    ELSE IF 50000 + 2 * v > 0 THEN 50000 + 2 * v ELSE 0

\* C21: normalize_score for revenue_growth is 100 from 20 up, 70 + 3 (v - 10)
\* from 10 to 20, 50 + 2 v from 0 to 10 and max(0, 50 + 2 v) below 0, so 25
\* gives 100, 15 gives 85, 5 gives 60 and -10 gives 30; a metric name that is
\* not recognized gives 50
C21_RevenueGrowthCurve ==
    Called("normalize_score") =>
        LET v == call.args[1]
        IN  /\ (call.args[2] = "revenue_growth" /\ ~IsNaN(v)) =>
                /\ call.ret = RevenueGrowthCurve(v)
                /\ v = 25000 => call.ret = 100000
                /\ v = 15000 => call.ret = 85000
                /\ v = 5000 => call.ret = 60000
                /\ v = -10000 => call.ret = 30000
            /\ call.args[2] = "beta" => call.ret = 50000

C21_Witness ==
    /\ Called("normalize_score")
    /\ call.args = <<15000, "revenue_growth">>
    /\ call.ret = 85000

\* the technical score of the same indicators with the RSI at 50
ScoreAtRsi50(indicators) ==
    calculate_technical_score([indicators EXCEPT !.rsi = 50000], TRUE)

\* C22: the RSI term of calculate_technical_score is 0.3 (RSI - 50) inside the
\* band of 30 to 70 and a penalty outside it: an RSI above 70 or below 30
\* never gives a higher score than an RSI of 50 would
C22_RsiPenaltyOutsideBand ==
    Called("calculate_technical_score") =>
        LET indicators == call.args[1]
            rsi == indicators.rsi
        IN  /\ (Ge(rsi, 30000) /\ Le(rsi, 70000)) =>
                rsi_term(rsi) = (3 * (rsi - 50000)) \div 10
            /\ (Gt(rsi, 70000) \/ Lt(rsi, 30000)) =>
                /\ rsi_term(rsi) <= 0
                /\ call.ret <= ScoreAtRsi50(indicators)

\* the trend the claim's table gives for a price and two moving averages
TrendTable(price, ma20, ma50) ==
    IF price > ma20 /\ ma20 > ma50 THEN "Strong Uptrend"
    ELSE IF price > ma20 /\ ma20 < ma50 THEN "Weak Uptrend"
    ELSE IF price < ma20 /\ ma20 < ma50 THEN "Strong Downtrend"
    ELSE IF price < ma20 /\ ma20 > ma50 THEN "Weak Downtrend"
    ELSE "Sideways"

\* C23: the trend TechnicalAnalyst.analyze reports is Unknown when the history
\* is too short for the 20-day or the 50-day moving average, and otherwise it
\* is the class of the ordering of price, MA20 and MA50, Sideways for every
\* ordering that is none of the four trends
C23_TrendOrUnknown ==
    (call.op = "technical_analyze" /\ call.ret.bias # "Unknown") =>
        LET rows == call.args[1].history.rows
            indicators == call.ret.indicators
        IN  IF rows < 50
            THEN indicators.trend = "Unknown"
            ELSE indicators.trend =
                    TrendTable(indicators.support_resistance.current_price,
                               indicators.moving_averages.MA20,
                               indicators.moving_averages.MA50)

PublishTime(article) == Get(article, "providerPublishTime", 0)

\* how many articles of ticker.news are published on day d or later
PublishedFrom(news, d) ==
    Cardinality({i \in 1..Len(news) : PublishTime(news[i]) >= d})

\* how many returned items are dated day d or later
ReturnedFrom(items, d) ==
    Cardinality({i \in 1..Len(items) : items[i].date >= d})

\* C24: fetch_news returns at most 20 items, all published within the last
\* `days` days, and when more than 20 articles are inside the window the 20
\* returned are the 20 most recent ones, whatever the order of the provider
C24_TwentyMostRecent ==
    (Called("fetch_news") /\ ~call.args[1].raises) =>
        LET news == call.args[1].news
            cutoff == Now - call.args[2]
            returned == call.ret
        IN  /\ Len(returned) <= 20
            /\ \A i \in 1..Len(returned) : returned[i].date >= cutoff
            /\ \A d \in cutoff..Now :
                    LET recent == PublishedFrom(news, d)
                    IN  ReturnedFrom(returned, d)
                            = (IF recent < 20 THEN recent ELSE 20)

\* the composite scores the claim allows: the multiples of 5 from 25 to 100
CompositeScores == {5 * k : k \in 5..20}

\* the risk scores the claim allows in a Decision
DecisionRiskScores == {80000, 60000, 40000, 20000, 50000}

\* C25: the composite risk score of assess_risk_level is a multiple of 5
\* between 25 and 100, so the level is never Very Low, and agent_scores.risk of
\* a Decision is one of 80, 60, 40, 20 and 50, never 100.
C25_NeverVeryLow ==
    /\ (call.op = "risk_analyze" /\ Assessed(call.ret)) =>
        /\ composite_risk_score(call.ret.volatility, call.ret.max_drawdown,
                                call.ret.sharpe_ratio) \in CompositeScores
        /\ call.ret.risk_level # "Very Low"
    /\ Assessed(risk_analysis) =>
        /\ composite_risk_score(risk_analysis.volatility,
                                risk_analysis.max_drawdown,
                                risk_analysis.sharpe_ratio) \in CompositeScores
        /\ risk_analysis.risk_level # "Very Low"
    /\ Decided =>
        /\ final_decision.agent_biases.risk # "Very Low"
        /\ final_decision.agent_scores.risk \in DecisionRiskScores

\* the calmest history: every contribution at its floor, the sum 25, Low
C25_Witness ==
    /\ call.op = "risk_analyze"
    /\ Assessed(call.ret)
    /\ composite_risk_score(call.ret.volatility, call.ret.max_drawdown,
                            call.ret.sharpe_ratio) = 25
    /\ call.ret.risk_level = "Low"

HighRisk(risk_level) == risk_level \in {"High", "Very High"}

\* C26: when risk_level is High or Very High, determine_recommendation never
\* returns Buy, for any combined score and any three biases; nor does a
\* Decision whose risk level is High or Very High recommend Buy.
C26_NoBuyAtHighRisk ==
    /\ (Called("determine_recommendation") /\ HighRisk(call.args[3])) =>
        call.ret[1] # "Buy"
    /\ (Decided /\ HighRisk(final_decision.agent_biases.risk)) =>
        final_decision.recommendation # "Buy"

\* the inputs for which the claim says Avoid
AvoidCase(combined_score, biases, risk_level) ==
    /\ HighRisk(risk_level)
    /\ Cardinality({i \in 1..3 : biases[i] \in BearishLabels}) >= 2
    /\ 55000 <= combined_score
    /\ combined_score < 70000

\* C27: determine_recommendation returns Avoid exactly when risk_level is High
\* or Very High, at least two of the three biases are bearish and
\* 55 <= combined_score < 70; for every other input it returns Buy, Hold or
\* Sell. The same holds of the recommendation of every Decision.
C27_AvoidExactly ==
    /\ Called("determine_recommendation") =>
        IF AvoidCase(call.args[1], call.args[2], call.args[3])
        THEN call.ret[1] = "Avoid"
        ELSE call.ret[1] \in {"Buy", "Hold", "Sell"}
    /\ Decided =>
        IF AvoidCase(final_decision.combined_score,
                     <<final_decision.agent_biases.fundamental,
                       final_decision.agent_biases.sentiment,
                       final_decision.agent_biases.technical>>,
                     final_decision.agent_biases.risk)
        THEN final_decision.recommendation = "Avoid"
        ELSE final_decision.recommendation \in {"Buy", "Hold", "Sell"}

\* Avoid from two slightly bearish agents at the lower edge of the band
C27_Witness ==
    /\ Called("determine_recommendation")
    /\ call.args = <<55000, <<"Slightly Bearish", "Bullish", "Slightly Bearish">>,
                     "Very High">>
    /\ call.ret[1] = "Avoid"

\* the four results the agents give when they have no data
NoData(fundamental, sentiment, technical, risk) ==
    /\ fundamental # None /\ sentiment # None /\ technical # None /\ risk # None
    /\ fundamental.score = 0 /\ fundamental.bias = "Unknown"
    /\ sentiment.score = 50000 /\ sentiment.bias = "Neutral"
    /\ sentiment.total_articles = 0
    /\ technical.score = 50000 /\ technical.bias = "Unknown"
    /\ risk.risk_level = "Unknown"

DecisionFields ==
    {"recommendation", "confidence", "combined_score", "reason", "agent_scores",
     "agent_biases", "detailed_analysis"}

\* C28: when every fetch fails and the four agents return their no-data
\* defaults, DecisionEngine.analyze returns a complete Decision with
\* combined_score 35.0, recommendation Sell and confidence 55.
C28_AllDefaultsDecision ==
    /\ (pc = "done" /\ NoData(fundamental_analysis, sentiment_analysis,
                              technical_analysis, risk_analysis)) => Decided
    /\ (Decided /\ NoData(final_decision.detailed_analysis.fundamental,
                          final_decision.detailed_analysis.sentiment,
                          final_decision.detailed_analysis.technical,
                          final_decision.detailed_analysis.risk)) =>
        /\ DecisionFields \subseteq DOMAIN final_decision
        /\ final_decision.combined_score = 35000
        /\ final_decision.recommendation = "Sell"
        /\ final_decision.confidence = 55

\* every fetch raised inside its agent
C28_Witness ==
    /\ Decided
    /\ agent_calls = <<"fundamental", "sentiment", "technical", "risk">>
    /\ final_decision.detailed_analysis.fundamental.insights
            = <<"Unable to fetch financial data">>
    /\ final_decision.detailed_analysis.sentiment.insights
            = <<"No recent news available">>
    /\ final_decision.detailed_analysis.technical.insights
            = <<"Unable to fetch price data">>
    /\ final_decision.detailed_analysis.risk.recommendations
            = <<"Unable to fetch price data">>
    /\ final_decision.combined_score = 35000
    /\ final_decision.recommendation = "Sell"
    /\ final_decision.confidence = 55

====
